---- MODULE Spec2Model ----
(***************************************************************************)
(* TeamUp allocation engine: team-count planning, phased greedy            *)
(* assignment with group-conflict detection and resolution, local search,  *)
(* final balancing, warning synthesis, and the role adapter that maps      *)
(* roles onto virtual subjects.                                            *)
(*                                                                         *)
(* A student is a record [ID, Materias]; Materias is the ordered list of   *)
(* [subject, group] enrolments.  A team is [id, students], students being  *)
(* the ordered list of Student records the team references.  The           *)
(* commitment map is a function from team id to a function whose domain    *)
(* is the set of subjects the team is committed on; a team id without an   *)
(* entry in the JavaScript Map reads the same as an empty inner map and is *)
(* represented by the empty function.                                      *)
(***************************************************************************)
EXTENDS Integers, Sequences, FiniteSets, TLC

(***************************************************************************)
(* Bounds of the model.                                                    *)
(***************************************************************************)
MaxStudents == 3
MaxRoleStudents == 2
MaxTeams == 2
MaxMin == 2
\* The roster sizes of the runs checked for termination.
MaxFairStudents == 2
MaxFairRoleStudents == 1
ScenarioStudents == 4
RerunTeams == 3
RerunStudents == 5

(***************************************************************************)
(* Generic sequence helpers (Array.prototype.filter / findIndex / sort).   *)
(***************************************************************************)
EmptyMap == <<>>

Max(a, b) == IF a >= b THEN a ELSE b

Min(a, b) == IF a <= b THEN a ELSE b

Abs(a) == IF a >= 0 THEN a ELSE -a

SeqToSet(s) == {s[i] : i \in 1..Len(s)}

\* The body F applied to the value of v: a value used many times is computed
\* once and bound as the element of the set that holds it.
With(v, F(_)) == CHOOSE r \in {F(x) : x \in {v}} : TRUE

Includes(s, x) == \E i \in 1..Len(s) : s[i] = x

\* Array.prototype.findIndex, 1-based, 0 for "not found" (-1 in the source).
FindIndex(s, P(_)) ==
  IF \E i \in 1..Len(s) : P(s[i])
  THEN CHOOSE i \in 1..Len(s) : P(s[i]) /\ \A j \in 1..(i - 1) : ~P(s[j])
  ELSE 0

\* Array.prototype.filter.
Filter(s, P(_)) == SelectSeq(s, P)

\* Array.prototype.splice(i, 1): the array without its i-th element.
RemoveAt(s, i) == SubSeq(s, 1, i - 1) \o SubSeq(s, i + 1, Len(s))

\* Array.prototype.sort((a, b) => key(a) - key(b)): stable, ascending.  The
\* element at index i lands after the elements with a smaller key and the
\* elements with the same key that precede it.
SortByKey(s, Key(_)) ==
  LET n == Len(s)
      Rank(i) == 1 + Cardinality({j \in 1..n : \/ Key(s[j]) < Key(s[i])
                                                \/ (Key(s[j]) = Key(s[i]) /\ j < i)})
  IN [p \in 1..n |-> s[CHOOSE i \in 1..n : Rank(i) = p]]

\* All orders of the elements of a set: the possible results of
\* sort(() => Math.random() - 0.5).
Orders(S) ==
  {p \in [1..Cardinality(S) -> S] : \A i, j \in 1..Cardinality(S) : i # j => p[i] # p[j]}

(***************************************************************************)
(* utils.ts                                                                *)
(***************************************************************************)
HasSubject(student, subject) ==
  \E i \in 1..Len(student.Materias) : student.Materias[i].subject = subject

HasSubjectGroup(student, subject, group) ==
  \E i \in 1..Len(student.Materias) :
    student.Materias[i].subject = subject /\ student.Materias[i].group = group

countGroupStudents(team, subject, group) ==
  Len(Filter(team.students, LAMBDA s : HasSubjectGroup(s, subject, group)))

countStudentsWithSubject(team, subject) ==
  Len(Filter(team.students, LAMBDA s : HasSubject(s, subject)))

getConfiguredSubjectMinimum(subject, minMode, globalMinStudents, individualMinStudents) ==
  IF minMode = "individual"
  THEN Max(1, IF subject \in DOMAIN individualMinStudents
              THEN individualMinStudents[subject] ELSE 1)
  ELSE Max(1, globalMinStudents)

\* The upper limit without the margin of one over the minimum.
getUpperLimitWithoutMargin(subject, minMode, globalMinStudents, individualMinStudents) ==
  getConfiguredSubjectMinimum(subject, minMode, globalMinStudents, individualMinStudents)

getUpperLimitForSubjectInTeam(subject, minMode, globalMinStudents, individualMinStudents) ==
  getConfiguredSubjectMinimum(subject, minMode, globalMinStudents, individualMinStudents) + 1

getStudentsForSubject(subjectName, allStudents) ==
  Filter(allStudents, LAMBDA s : HasSubject(s, subjectName))

NoWarning == [kind |-> "none"]

getCriticalSubjectWarning(subject, studentsInSubject, configuredMin) ==
  IF studentsInSubject = 0 /\ configuredMin > 0
  THEN [kind |-> "noStudentsInSubject", subject |-> subject, min |-> configuredMin]
  ELSE IF studentsInSubject < configuredMin /\ studentsInSubject > 0
  THEN [kind |-> "notEnoughStudents", subject |-> subject,
        count |-> studentsInSubject, min |-> configuredMin]
  ELSE NoWarning

\* getMaxTeams rounding the quotient up instead of down.
getMaxTeamsRoundingUp(studentsInSubject, configuredMin, userRequestedNumberOfTeams) ==
  IF configuredMin = 0 THEN userRequestedNumberOfTeams
  ELSE (studentsInSubject + configuredMin - 1) \div configuredMin

getMaxTeams(studentsInSubject, configuredMin, userRequestedNumberOfTeams) ==
  IF configuredMin = 0 THEN userRequestedNumberOfTeams
  ELSE studentsInSubject \div configuredMin

getSortedSubjects(selectedSubjects, allStudents) ==
  SortByKey(selectedSubjects, LAMBDA subj : Len(getStudentsForSubject(subj, allStudents)))


(***************************************************************************)
(* orderAllocation.ts                                                      *)
(***************************************************************************)
RECURSIVE PlanLoop(_, _, _, _, _, _, _, _)
\* The for-loop of determineOrderAllocation from index k on, carrying
\* maxSystemPossibleTeams and bottleneckSubject.
PlanLoop(k, maxSystemPossibleTeams, bottleneckSubject, allStudents, selectedSubjects, userRequestedNumberOfTeams, minMode, mins) ==
  IF k > Len(selectedSubjects)
  THEN [warning |-> NoWarning, maxSystemPossibleTeams |-> maxSystemPossibleTeams,
        bottleneckSubject |-> bottleneckSubject]
  ELSE
    LET subject == selectedSubjects[k]
        studentsInSubject == Len(getStudentsForSubject(subject, allStudents))
        configuredMin == getConfiguredSubjectMinimum(subject, minMode, mins.global, mins.individual)
        warning == getCriticalSubjectWarning(subject, studentsInSubject, configuredMin)
        maxTeamsForThisSubject ==
          getMaxTeams(studentsInSubject, configuredMin, userRequestedNumberOfTeams)
    IN IF warning # NoWarning
       THEN [warning |-> warning, maxSystemPossibleTeams |-> maxSystemPossibleTeams,
             bottleneckSubject |-> bottleneckSubject]
       ELSE IF maxTeamsForThisSubject < maxSystemPossibleTeams
       THEN PlanLoop(k + 1, maxTeamsForThisSubject, subject, allStudents, selectedSubjects,
                     userRequestedNumberOfTeams, minMode, mins)
       ELSE PlanLoop(k + 1, maxSystemPossibleTeams, bottleneckSubject, allStudents,
                     selectedSubjects, userRequestedNumberOfTeams, minMode, mins)

\* The outcome of determineOrderAllocation without the early return on a
\* criterion's warning.
PlanOutcomeIgnoringWarning(loop, allStudents, selectedSubjects, userRequestedNumberOfTeams) ==
  LET maxSystemPossibleTeams == loop.maxSystemPossibleTeams
      effective == Max(0, Min(userRequestedNumberOfTeams, maxSystemPossibleTeams))
  IN IF maxSystemPossibleTeams < 1
     THEN [effectiveNumberOfTeams |-> 0, sortedSubjectList |-> selectedSubjects,
           criticalWarning |-> [kind |-> "maxTeamsBelowOne",
                                max |-> maxSystemPossibleTeams,
                                subject |-> loop.bottleneckSubject]]
     ELSE [effectiveNumberOfTeams |-> effective,
           sortedSubjectList |-> getSortedSubjects(selectedSubjects, allStudents),
           criticalWarning |-> NoWarning]

\* Lines 43-62 of determineOrderAllocation: the outcome once the loop has run.
PlanOutcome(loop, allStudents, selectedSubjects, userRequestedNumberOfTeams) ==
  LET maxSystemPossibleTeams == loop.maxSystemPossibleTeams
      effective == Max(0, Min(userRequestedNumberOfTeams, maxSystemPossibleTeams))
  IN IF loop.warning # NoWarning
     THEN [effectiveNumberOfTeams |-> 0, sortedSubjectList |-> selectedSubjects,
           criticalWarning |-> loop.warning]
     ELSE IF maxSystemPossibleTeams < 1
     THEN [effectiveNumberOfTeams |-> 0, sortedSubjectList |-> selectedSubjects,
           criticalWarning |-> [kind |-> "maxTeamsBelowOne",
                                max |-> maxSystemPossibleTeams,
                                subject |-> loop.bottleneckSubject]]
     ELSE IF effective <= 0
     THEN [effectiveNumberOfTeams |-> 0, sortedSubjectList |-> selectedSubjects,
           criticalWarning |-> [kind |-> "noTeamPossible",
                                max |-> maxSystemPossibleTeams,
                                subject |-> loop.bottleneckSubject]]
     ELSE [effectiveNumberOfTeams |-> effective,
           sortedSubjectList |-> getSortedSubjects(selectedSubjects, allStudents),
           criticalWarning |-> NoWarning]

determineOrderAllocation(allStudents, selectedSubjects, userRequestedNumberOfTeams, minMode, globalMinStudents, individualMinStudents) ==
  IF Len(selectedSubjects) = 0
  THEN [effectiveNumberOfTeams |-> 0, sortedSubjectList |-> <<>>, criticalWarning |-> NoWarning]
  ELSE PlanOutcome(PlanLoop(1, userRequestedNumberOfTeams, "", allStudents, selectedSubjects,
                            userRequestedNumberOfTeams, minMode,
                            [global |-> globalMinStudents, individual |-> individualMinStudents]),
                   allStudents, selectedSubjects, userRequestedNumberOfTeams)

(***************************************************************************)
(* conflictResolver.ts and manager.ts.  A world is the pair [teams,        *)
(* commit] the two mutation points act on; a team is addressed by its id   *)
(* because the teams array is re-ordered in place by Phase 2.              *)
(***************************************************************************)
TeamIndex(teams, id) == CHOOSE i \in 1..Len(teams) : teams[i].id = id

TeamById(teams, id) == teams[TeamIndex(teams, id)]

NoConflict == [found |-> FALSE]

\* existingStudent.Materias.find(esg => esg.subject === subject): the first entry.
FirstEntryFor(student, subject) ==
  LET i == FindIndex(student.Materias, LAMBDA sg : sg.subject = subject)
  IN IF i = 0 THEN <<>> ELSE <<student.Materias[i]>>

\* The result of one iteration of the outer loop of findGroupConflict.
ConflictForEntry(sg, team, teamCommitments) ==
  IF sg.subject \in DOMAIN teamCommitments /\ teamCommitments[sg.subject] # sg.group
  THEN [found |-> TRUE, subject |-> sg.subject, group |-> teamCommitments[sg.subject]]
  ELSE
    LET Clashes(existing) ==
          LET e == FirstEntryFor(existing, sg.subject)
          IN e # <<>> /\ e[1].group # sg.group
        i == FindIndex(team.students, Clashes)
    IN IF i = 0 THEN NoConflict
       ELSE [found |-> TRUE, subject |-> sg.subject,
             group |-> FirstEntryFor(team.students[i], sg.subject)[1].group]

\* findGroupConflict reporting no conflict at all.
findGroupConflictBlind(student, team, teamSubjectGroupCommitment) == NoConflict

findGroupConflict(student, team, teamSubjectGroupCommitment) ==
  LET In(theTeam) ==
        LET Under(teamCommitments) ==
              LET At(i) ==
                    IF i = 0 THEN NoConflict
                    ELSE ConflictForEntry(student.Materias[i], theTeam, teamCommitments)
              IN With(FindIndex(student.Materias,
                                LAMBDA sg : ConflictForEntry(sg, theTeam, teamCommitments).found),
                      At)
        IN With(teamSubjectGroupCommitment[theTeam.id], Under)
  IN With(team, In)

RECURSIVE AssignCommit(_, _, _, _, _)
\* The forEach over student.Materias of assignStudent, from entry k on;
\* members is team.students after the push.
AssignCommit(k, student, members, teamCommitments, selectedSubjects) ==
  IF k > Len(student.Materias) THEN teamCommitments
  ELSE
    LET sg == student.Materias[k]
        hasExistingConflict ==
          \E i \in 1..Len(members) :
            /\ members[i].ID # student.ID
            /\ \E j \in 1..Len(members[i].Materias) :
                 /\ members[i].Materias[j].subject = sg.subject
                 /\ members[i].Materias[j].group # sg.group
        next ==
          IF /\ Includes(selectedSubjects, sg.subject)
             /\ sg.subject \notin DOMAIN teamCommitments
             /\ ~hasExistingConflict
          THEN teamCommitments @@ (sg.subject :> sg.group)
          ELSE teamCommitments
    IN AssignCommit(k + 1, student, members, next, selectedSubjects)

assignStudent(w, student, teamId, selectedSubjects) ==
  LET In(world) ==
        LET At(ti) ==
              LET Push(members) ==
                    [teams |-> [world.teams EXCEPT ![ti].students = members],
                     commit |-> [world.commit EXCEPT ![teamId] =
                                   AssignCommit(1, student, members, world.commit[teamId],
                                                selectedSubjects)]]
              IN IF \E i \in 1..Len(world.teams[ti].students) :
                      world.teams[ti].students[i].ID = student.ID
                 THEN world
                 ELSE With(Append(world.teams[ti].students, student), Push)
        IN With(TeamIndex(world.teams, teamId), At)
  IN With(w, In)

\* The domain restriction that models Map.prototype.delete.
MapDelete(m, key) == [k \in (DOMAIN m) \ {key} |-> m[k]]

\* Map.prototype.set.
MapSet(m, key, value) == [k \in (DOMAIN m) \cup {key} |-> IF k = key THEN value ELSE m[k]]

\* The set of groups the members hold for a subject.
GroupsInUse(members, subject) ==
  UNION {{m.Materias[j].group :
            j \in {k \in 1..Len(m.Materias) : m.Materias[k].subject = subject}} :
         m \in SeqToSet(members)}

RECURSIVE RemoveCommit(_, _, _, _, _)
\* The forEach over student.Materias of removeStudent, from entry k on;
\* members is team.students after the filter.
RemoveCommit(k, student, members, teamCommitments, selectedSubjects) ==
  IF k > Len(student.Materias) THEN teamCommitments
  ELSE
    LET sg == student.Materias[k]
        commitmentStillHeld ==
          \E i \in 1..Len(members) : HasSubjectGroup(members[i], sg.subject, sg.group)
        otherGroups == GroupsInUse(members, sg.subject)
        next ==
          IF /\ Includes(selectedSubjects, sg.subject)
             /\ sg.subject \in DOMAIN teamCommitments
             /\ teamCommitments[sg.subject] = sg.group
             /\ ~commitmentStillHeld
          THEN IF Cardinality(otherGroups) = 1
               THEN MapSet(MapDelete(teamCommitments, sg.subject), sg.subject,
                           CHOOSE g \in otherGroups : TRUE)
               ELSE MapDelete(teamCommitments, sg.subject)
          ELSE teamCommitments
    IN RemoveCommit(k + 1, student, members, next, selectedSubjects)

removeStudent(w, student, teamId, selectedSubjects) ==
  LET In(world) ==
        LET At(ti) ==
              LET Keep(members) ==
                    IF Len(members) = Len(world.teams[ti].students)
                    THEN world
                    ELSE [teams |-> [world.teams EXCEPT ![ti].students = members],
                          commit |-> [world.commit EXCEPT ![teamId] =
                                        RemoveCommit(1, student, members,
                                                     world.commit[teamId], selectedSubjects)]]
              IN With(Filter(world.teams[ti].students, LAMBDA s : s.ID # student.ID), Keep)
        IN With(TeamIndex(world.teams, teamId), At)
  IN With(w, In)

\* A move that removes the student and never adds them to the other team.
MoveStudentDropping(w, student, fromTeamId, toTeamId, selectedSubjects) ==
  removeStudent(w, student, fromTeamId, selectedSubjects)

\* removeStudent from one team followed by assignStudent to another: the
\* pair of calls every move of the engine is made of.
MoveStudent(w, student, fromTeamId, toTeamId, selectedSubjects) ==
  assignStudent(removeStudent(w, student, fromTeamId, selectedSubjects),
                student, toTeamId, selectedSubjects)

\* The inner loop of tryResolveConflict taking the first destination without
\* testing it for a conflict.
FirstFreeUntested(w, student, potentialDestinations) ==
  IF Len(potentialDestinations) > 0 THEN 1 ELSE 0

\* The inner loop of tryResolveConflict (lines 361-373): the index of the
\* first destination without a conflict for the student, 0 if there is none.
FirstFree(w, student, potentialDestinations) ==
  FindIndex(potentialDestinations,
            LAMBDA id : ~findGroupConflict(student, TeamById(w.teams, id), w.commit).found)

\* The outer loop of tryResolveConflict (lines 355-375): the first
\* conflicting student with a free destination is moved there.
RelocateFirst(w, targetTeamId, conflictingStudentsInTarget, potentialDestinations, selectedSubjects) ==
  With(FindIndex(conflictingStudentsInTarget,
                 LAMBDA s : FirstFree(w, s, potentialDestinations) # 0),
       LAMBDA si :
         IF Len(conflictingStudentsInTarget) = 0 \/ si = 0
         THEN [ok |-> FALSE, w |-> w]
         ELSE [ok |-> TRUE,
               w |-> MoveStudent(w, conflictingStudentsInTarget[si], targetTeamId,
                                 potentialDestinations[
                                   FirstFree(w, conflictingStudentsInTarget[si],
                                             potentialDestinations)],
                                 selectedSubjects)])

\* tryResolveConflict.  order is the result of the random sort of the other
\* teams (a sequence of team ids; ids the call does not offer are skipped).
\* Returns [ok, w]: the return value and the world after the call.
tryResolveConflict(w, targetTeamId, conflictingSubject, conflictingGroupInTeam, order, selectedSubjects) ==
  With(Filter(TeamById(w.teams, targetTeamId).students,
              LAMBDA s : HasSubjectGroup(s, conflictingSubject, conflictingGroupInTeam)),
       LAMBDA conflictingStudentsInTarget :
         With(Filter(order, LAMBDA id : id # targetTeamId
                                        /\ \E i \in 1..Len(w.teams) : w.teams[i].id = id),
              LAMBDA potentialDestinations :
                RelocateFirst(w, targetTeamId, conflictingStudentsInTarget,
                              potentialDestinations, selectedSubjects)))

(***************************************************************************)
(* utils.ts: calculateMoveScore.  averageTeamSize is the rational          *)
(* assignedCount / numberOfTeams; the score is returned multiplied by      *)
(* numberOfTeams so that it stays an integer.                              *)
(***************************************************************************)
\* The four score terms of one selected subject (lines 705-733).
SubjectTerms(configuredMin, upperLimit, sourceCountSubjectBefore, sourceCountSubjectAfter, targetCountSubjectBefore, targetCountSubjectAfter) ==
  (IF sourceCountSubjectBefore >= configuredMin /\ sourceCountSubjectAfter < configuredMin
   THEN 10 ELSE 0)
  + (IF sourceCountSubjectBefore > upperLimit /\ sourceCountSubjectAfter <= upperLimit
     THEN -3 ELSE 0)
  + (IF targetCountSubjectBefore < configuredMin /\ targetCountSubjectAfter >= configuredMin
     THEN -10 ELSE 0)
  + (IF targetCountSubjectBefore >= configuredMin /\ targetCountSubjectAfter > upperLimit
     THEN 7 ELSE 0)

RECURSIVE SubjectScore(_, _, _, _, _, _)
\* The forEach over student.Materias of calculateMoveScore, from entry k on.
SubjectScore(k, student, sourceTeam, targetTeam, selectedSubjects, mins) ==
  IF k > Len(student.Materias) THEN 0
  ELSE
    LET subject == student.Materias[k].subject
        moves == IF HasSubject(student, subject) THEN 1 ELSE 0
        here ==
          IF ~Includes(selectedSubjects, subject) THEN 0
          ELSE SubjectTerms(
                 getConfiguredSubjectMinimum(subject, mins.minMode, mins.global, mins.individual),
                 getUpperLimitForSubjectInTeam(subject, mins.minMode, mins.global, mins.individual),
                 countStudentsWithSubject(sourceTeam, subject),
                 countStudentsWithSubject(sourceTeam, subject) - moves,
                 countStudentsWithSubject(targetTeam, subject),
                 countStudentsWithSubject(targetTeam, subject) + moves)
    IN here + SubjectScore(k + 1, student, sourceTeam, targetTeam, selectedSubjects, mins)

calculateMoveScore(student, sourceTeam, targetTeam, selectedSubjects, mins, assignedCount, numberOfTeams) ==
  LET sourceSizeBefore == Len(sourceTeam.students)
      targetSizeBefore == Len(targetTeam.students)
      sourceSizeAfter == sourceSizeBefore - 1
      targetSizeAfter == targetSizeBefore + 1
      penaltyBefore == Abs(sourceSizeBefore * numberOfTeams - assignedCount)
                       + Abs(targetSizeBefore * numberOfTeams - assignedCount)
      penaltyAfter == Abs(sourceSizeAfter * numberOfTeams - assignedCount)
                      + Abs(targetSizeAfter * numberOfTeams - assignedCount)
  IN (penaltyAfter - penaltyBefore)
     + numberOfTeams * SubjectScore(1, student, sourceTeam, targetTeam, selectedSubjects, mins)

\* The upper-limit test that never finds a violation.
ViolatesUpperLimitNever(student, team, selectedSubjects, mins, except) == FALSE

\* The upper-limit test shared by Phase 2, localSearch and the balancer:
\* some selected subject of the student (other than `except`) is at or above
\* its minimum in the team and one more member would exceed the upper limit.
ViolatesUpperLimit(student, team, selectedSubjects, mins, except) ==
  \E k \in 1..Len(student.Materias) :
    LET subject == student.Materias[k].subject
        count == countStudentsWithSubject(team, subject)
    IN /\ Includes(selectedSubjects, subject)
       /\ subject # except
       /\ count >= getConfiguredSubjectMinimum(subject, mins.minMode, mins.global, mins.individual)
       /\ count + 1 > getUpperLimitForSubjectInTeam(subject, mins.minMode, mins.global, mins.individual)

(***************************************************************************)
(* balanceTeams.ts.  cfg is [selectedSubjects, mins].  A pass returns      *)
(* [w, moved, trace]: the world after the pass, its return value, and the  *)
(* teams array after each move it made.                                    *)
(***************************************************************************)
MinOf(subject, mins) ==
  getConfiguredSubjectMinimum(subject, mins.minMode, mins.global, mins.individual)

UpperOf(subject, mins) ==
  getUpperLimitForSubjectInTeam(subject, mins.minMode, mins.global, mins.individual)

\* canMoveWithoutBreakingOtherMinimums without its test.
canMoveUnchecked(student, team, selectedSubjects, subject, mins) == TRUE

canMoveWithoutBreakingOtherMinimums(student, team, selectedSubjects, subject, mins) ==
  \A k \in 1..Len(selectedSubjects) :
    LET otherSubj == selectedSubjects[k]
        countOtherInSourceAfterMove ==
          Len(Filter(team.students,
                     LAMBDA st : st.ID # student.ID /\ HasSubject(st, otherSubj)))
    IN (otherSubj # subject /\ HasSubject(student, otherSubj))
         => countOtherInSourceAfterMove >= MinOf(otherSubj, mins)

canMoveWithoutBreakingThisOrOtherMinimums(student, team, selectedSubjects, subject, mins, countInSource) ==
  /\ ~((countInSource - 1) < MinOf(subject, mins))
  /\ canMoveWithoutBreakingOtherMinimums(student, team, selectedSubjects, subject, mins)

canPlaceInTargetForOtherSubjects(student, targetTeam, selectedSubjects, subject, mins) ==
  ~ViolatesUpperLimit(student, targetTeam, selectedSubjects, mins, subject)

\* The other teams, fewest students of the subject first (stable sort).
TargetsByCount(teams, sourceId, subject) ==
  SortByKey(Filter(teams, LAMBDA t : t.id # sourceId),
            LAMBDA t : countStudentsWithSubject(t, subject))

\* One iteration of the while-loop of moveStudentsToMeetMinimums for a
\* subject and a source team: [moved, w].
MeetMinimumMove(w, subject, sourceId, cfg) ==
  LET sourceTeam == TeamById(w.teams, sourceId)
      configuredMin == MinOf(subject, cfg.mins)
      studentsInSourceForSubject ==
        SortByKey(Filter(sourceTeam.students, LAMBDA s : HasSubject(s, subject)),
                  LAMBDA s : Len(s.Materias))
      si == FindIndex(studentsInSourceForSubject,
                      LAMBDA s : canMoveWithoutBreakingOtherMinimums(
                                   s, sourceTeam, cfg.selectedSubjects, subject, cfg.mins))
      \* lines 166-183: the search of a target for studentToMove and the move
      Place(studentToMove, potentialTargetTeams) ==
        LET Fits(targetTeam) ==
              /\ \/ countStudentsWithSubject(targetTeam, subject) < configuredMin
                 \/ /\ countStudentsWithSubject(targetTeam, subject) = configuredMin
                    /\ countStudentsWithSubject(targetTeam, subject) < UpperOf(subject, cfg.mins)
              /\ ~findGroupConflict(studentToMove, targetTeam, w.commit).found
              /\ canPlaceInTargetForOtherSubjects(studentToMove, targetTeam,
                                                  cfg.selectedSubjects, subject, cfg.mins)
            ti == FindIndex(potentialTargetTeams, Fits)
        IN IF ti = 0 THEN [moved |-> FALSE, w |-> w]
           ELSE [moved |-> TRUE,
                 w |-> MoveStudent(w, studentToMove, sourceId, potentialTargetTeams[ti].id,
                                   cfg.selectedSubjects)]
  IN IF ~(Len(studentsInSourceForSubject) > configuredMin) \/ si = 0
     THEN [moved |-> FALSE, w |-> w]
     ELSE Place(studentsInSourceForSubject[si], TargetsByCount(w.teams, sourceId, subject))

\* One iteration of the while-loop of moveStudentsToRespectUpperLimits.
UpperLimitMove(w, subject, sourceId, cfg) ==
  LET sourceTeam == TeamById(w.teams, sourceId)
      upperLimit == UpperOf(subject, cfg.mins)
      countInSource == countStudentsWithSubject(sourceTeam, subject)
      candidates == Filter(sourceTeam.students, LAMBDA s : HasSubject(s, subject))
      si == FindIndex(candidates,
                      LAMBDA s : canMoveWithoutBreakingThisOrOtherMinimums(
                                   s, sourceTeam, cfg.selectedSubjects, subject, cfg.mins,
                                   countInSource))
      \* lines 210-226: the search of a destination for studentToMove and the move
      Place(studentToMove, potentialDestinations) ==
        LET Fits(destTeam) ==
              /\ ~findGroupConflict(studentToMove, destTeam, w.commit).found
              /\ canPlaceInTargetForOtherSubjects(studentToMove, destTeam,
                                                  cfg.selectedSubjects, subject, cfg.mins)
            di == FindIndex(potentialDestinations, Fits)
        IN IF di = 0 THEN [moved |-> FALSE, w |-> w]
           ELSE [moved |-> TRUE,
                 w |-> MoveStudent(w, studentToMove, sourceId, potentialDestinations[di].id,
                                   cfg.selectedSubjects)]
  IN IF ~(countInSource > upperLimit) \/ si = 0
     THEN [moved |-> FALSE, w |-> w]
     ELSE Place(candidates[si],
                SortByKey(Filter(w.teams,
                                 LAMBDA t : t.id # sourceId
                                            /\ countStudentsWithSubject(t, subject) < upperLimit),
                          LAMBDA t : countStudentsWithSubject(t, subject)))

RECURSIVE MeetMinimumsFrom(_, _, _, _, _, _)
\* The two for-loops of moveStudentsToMeetMinimums from subject index si and
\* team index ti on.
MeetMinimumsFrom(w, si, ti, moved, trace, cfg) ==
  IF si > Len(cfg.selectedSubjects) THEN [w |-> w, moved |-> moved, trace |-> trace]
  ELSE IF ti > Len(w.teams) THEN MeetMinimumsFrom(w, si + 1, 1, moved, trace, cfg)
  ELSE
    LET After(step) ==
          IF step.moved
          THEN MeetMinimumsFrom(step.w, si, ti, TRUE, Append(trace, step.w.teams), cfg)
          ELSE MeetMinimumsFrom(w, si, ti + 1, moved, trace, cfg)
    IN With(MeetMinimumMove(w, cfg.selectedSubjects[si], w.teams[ti].id, cfg), After)

moveStudentsToMeetMinimums(w, cfg) == MeetMinimumsFrom(w, 1, 1, FALSE, <<>>, cfg)

RECURSIVE RespectUpperFrom(_, _, _, _, _, _)
\* The two for-loops of moveStudentsToRespectUpperLimits.
RespectUpperFrom(w, si, ti, moved, trace, cfg) ==
  IF si > Len(cfg.selectedSubjects) THEN [w |-> w, moved |-> moved, trace |-> trace]
  ELSE IF ti > Len(w.teams) THEN RespectUpperFrom(w, si + 1, 1, moved, trace, cfg)
  ELSE
    LET After(step) ==
          IF step.moved
          THEN RespectUpperFrom(step.w, si, ti, TRUE, Append(trace, step.w.teams), cfg)
          ELSE RespectUpperFrom(w, si, ti + 1, moved, trace, cfg)
    IN With(UpperLimitMove(w, cfg.selectedSubjects[si], w.teams[ti].id, cfg), After)

moveStudentsToRespectUpperLimits(w, cfg) == RespectUpperFrom(w, 1, 1, FALSE, <<>>, cfg)

(***************************************************************************)
(* localSearch.ts: one pass of the while-loop.                             *)
(***************************************************************************)
DefaultMaxIterations == 50

\* studentA of teamA may move to teamB (lines 55-69; symmetric 75-89).
CanMoveTo(student, team, commit, cfg) ==
  /\ ~findGroupConflict(student, team, commit).found
  /\ ~ViolatesUpperLimit(student, team, cfg.selectedSubjects, cfg.mins, "")

\* tempTeamA and tempTeamB (lines 93-94): the team without the student who
\* is to leave it.
TempTeam(team, student) ==
  [team EXCEPT !.students = Filter(team.students, LAMBDA s : s.ID # student.ID)]

\* The acceptance test of lines 91-101 for swapping studentA and studentB.
SwapImproves(studentA, teamA, studentB, teamB, cfg, assignedCount, numberOfTeams) ==
  LET tempTeamA == TempTeam(teamA, studentA)
      tempTeamB == TempTeam(teamB, studentB)
      scoreStudentAMoving ==
        calculateMoveScore(studentA, tempTeamA, teamB, cfg.selectedSubjects, cfg.mins,
                           assignedCount, numberOfTeams)
      scoreStudentBMoving ==
        calculateMoveScore(studentB, tempTeamB, teamA, cfg.selectedSubjects, cfg.mins,
                           assignedCount, numberOfTeams)
  \* (scoreA + scoreB) < -0.1, both sides multiplied by 10 * numberOfTeams
  IN 10 * (scoreStudentAMoving + scoreStudentBMoving) < -numberOfTeams

\* The swaps <<i, j, a, b>> the nested loops would accept, i < j positions in
\* shuffledTeams, a and b positions in the two teams.
AcceptableSwaps(w, shuffledTeams, cfg, assignedCount, numberOfTeams) ==
  {c \in (1..Len(shuffledTeams)) \X (1..Len(shuffledTeams))
         \X (1..assignedCount) \X (1..assignedCount) :
     /\ c[1] < c[2]
     /\ LET teamA == shuffledTeams[c[1]]
            teamB == shuffledTeams[c[2]]
        IN /\ c[3] <= Len(teamA.students)
           /\ c[4] <= Len(teamB.students)
           /\ CanMoveTo(teamA.students[c[3]], teamB, w.commit, cfg)
           /\ CanMoveTo(teamB.students[c[4]], teamA, w.commit, cfg)
           /\ SwapImproves(teamA.students[c[3]], teamA, teamB.students[c[4]], teamB,
                           cfg, assignedCount, numberOfTeams)}

LexLess(c, d) ==
  \E k \in 1..Len(c) : c[k] < d[k] /\ \A m \in 1..(k - 1) : c[m] = d[m]

\* A swap whose second student is never assigned to the first one's team.
SwapStudentsOneWay(w, studentA, teamAId, studentB, teamBId, selectedSubjects) ==
  assignStudent(
    removeStudent(removeStudent(w, studentA, teamAId, selectedSubjects),
                  studentB, teamBId, selectedSubjects),
    studentA, teamBId, selectedSubjects)

\* Lines 103-107: the four mutations of an accepted swap.
SwapStudents(w, studentA, teamAId, studentB, teamBId, selectedSubjects) ==
  assignStudent(
    assignStudent(
      removeStudent(removeStudent(w, studentA, teamAId, selectedSubjects),
                    studentB, teamBId, selectedSubjects),
      studentA, teamBId, selectedSubjects),
    studentB, teamAId, selectedSubjects)

\* A pass that reports a swap whether or not it made one.
localSearchPassAlwaysSwapped(w, order, cfg, assignedCount, numberOfTeams) ==
  LET shuffledTeams == [i \in 1..Len(order) |-> TeamById(w.teams, order[i])]
      Apply(c) ==
        SwapStudents(w, shuffledTeams[c[1]].students[c[3]], shuffledTeams[c[1]].id,
                     shuffledTeams[c[2]].students[c[4]], shuffledTeams[c[2]].id,
                     cfg.selectedSubjects)
      First(swaps) ==
        IF swaps = {} THEN [swapped |-> TRUE, w |-> w]
        ELSE [swapped |-> TRUE,
              w |-> Apply(CHOOSE x \in swaps : \A y \in swaps : x = y \/ LexLess(x, y))]
  IN With(AcceptableSwaps(w, shuffledTeams, cfg, assignedCount, numberOfTeams), First)

\* One pass: [swapped, w].  order is the random order of the team ids.  The
\* nested loops take the first acceptable swap in iteration order.
localSearchPass(w, order, cfg, assignedCount, numberOfTeams) ==
  LET shuffledTeams == [i \in 1..Len(order) |-> TeamById(w.teams, order[i])]
      Apply(c) ==
        SwapStudents(w, shuffledTeams[c[1]].students[c[3]], shuffledTeams[c[1]].id,
                     shuffledTeams[c[2]].students[c[4]], shuffledTeams[c[2]].id,
                     cfg.selectedSubjects)
      First(swaps) ==
        IF swaps = {} THEN [swapped |-> FALSE, w |-> w]
        ELSE [swapped |-> TRUE,
              w |-> Apply(CHOOSE x \in swaps : \A y \in swaps : x = y \/ LexLess(x, y))]
  IN With(AcceptableSwaps(w, shuffledTeams, cfg, assignedCount, numberOfTeams), First)

(***************************************************************************)
(* allocator.ts, Phase 4: the warnings allocateTeams builds and their      *)
(* order.  A warning is [team, subject, role, kind, isCritical, ...] with  *)
(* team = 0 and subject = "" for an absent field; kind and the remaining   *)
(* fields stand for the message template and its interpolated values.      *)
(***************************************************************************)
\* A warning whose isCritical flag is never set.
WarningNeverCritical(team, subject, kind, isCritical, info) ==
  [team |-> team, subject |-> subject, role |-> "", kind |-> kind,
   isCritical |-> FALSE, info |-> info]

Warning(team, subject, kind, isCritical, info) ==
  [team |-> team, subject |-> subject, role |-> "", kind |-> kind,
   isCritical |-> isCritical, info |-> info]

\* The position of a criterion name in String.prototype.localeCompare order.
NameRank(name) ==
  CASE name = "" -> 0
    [] name = "M" -> 1
    [] name = "P" -> 2
    [] name = "R1" -> 3
    [] name = "R2" -> 4

\* The comparator of assignmentWarnings.sort is negative: a sorts before b.
WarningBefore(a, b) ==
  IF a.isCritical # b.isCritical THEN a.isCritical
  ELSE IF a.team # b.team
       THEN (b.team = 0) \/ (a.team # 0 /\ a.team < b.team)
       ELSE NameRank(a.subject) < NameRank(b.subject)

\* The warnings left in the order they were pushed.
SortWarningsNot(ws) == ws

\* Array.prototype.sort with the comparator: stable.
SortWarnings(ws) ==
  LET n == Len(ws)
      Rank(i) == 1 + Cardinality({j \in 1..n : \/ WarningBefore(ws[j], ws[i])
                                                \/ (~WarningBefore(ws[i], ws[j]) /\ j < i)})
  IN [p \in 1..n |-> ws[CHOOSE i \in 1..n : Rank(i) = p]]

\* The warnings of a team for a subject with every shortfall, an empty one
\* included, reported as a non-critical one.
TeamSubjectWarningsOneKind(team, subject, mins) ==
  LET count == countStudentsWithSubject(team, subject)
      configuredMin == MinOf(subject, mins)
      groupsInTeamForSubject == GroupsInUse(team.students, subject)
  IN (IF count < configuredMin
      THEN <<Warning(team.id, subject, "belowMinimum", FALSE, <<count, configuredMin>>)>>
      ELSE <<>>)
     \o (IF Cardinality(groupsInTeamForSubject) > 1
         THEN <<Warning(team.id, subject, "groupConflict", TRUE, groupsInTeamForSubject)>>
         ELSE <<>>)

\* The warnings of one returned team for one selected subject (lines 98-142).
TeamSubjectWarnings(team, subject, mins) ==
  LET count == countStudentsWithSubject(team, subject)
      configuredMin == MinOf(subject, mins)
      groupsInTeamForSubject == GroupsInUse(team.students, subject)
      minimumPart ==
        IF count = 0 /\ configuredMin > 0
        THEN <<Warning(team.id, subject, "noStudentsForSubject", TRUE, <<configuredMin>>)>>
        ELSE IF count < configuredMin
        THEN <<Warning(team.id, subject, "belowMinimum", FALSE, <<count, configuredMin>>)>>
        ELSE <<>>
      conflictPart ==
        IF Cardinality(groupsInTeamForSubject) > 1
        THEN <<Warning(team.id, subject, "groupConflict", TRUE, groupsInTeamForSubject)>>
        ELSE <<>>
  IN minimumPart \o conflictPart

RECURSIVE TeamWarningsFrom(_, _, _, _, _)
\* teams.forEach(team => selectedSubjects.forEach(...)) from (ti, si) on.
TeamWarningsFrom(ti, si, teams, selectedSubjects, mins) ==
  IF ti > Len(teams) THEN <<>>
  ELSE IF si > Len(selectedSubjects) THEN TeamWarningsFrom(ti + 1, 1, teams, selectedSubjects, mins)
  ELSE TeamSubjectWarnings(teams[ti], selectedSubjects[si], mins)
       \o TeamWarningsFrom(ti, si + 1, teams, selectedSubjects, mins)

\* Lines 75-151 of allocateTeams: [teams, warnings].
FinalWarnings(allTeams, allStudents, assignedIDs, effectiveTeams, selectedSubjects, mins) ==
  LET kept == Filter(allTeams, LAMBDA t : Len(t.students) > 0)
      countPart ==
        IF Len(kept) = 0 /\ effectiveTeams > 0 /\ Len(selectedSubjects) > 0
        THEN <<Warning(0, "", "noTeamsFormed", TRUE, <<>>)>>
        ELSE IF Len(kept) < effectiveTeams /\ effectiveTeams > 0 /\ Len(selectedSubjects) > 0
        THEN <<Warning(0, "", "fewerTeams", FALSE, <<Len(kept), effectiveTeams>>)>>
        ELSE <<>>
      finalUnassignedStudents == Filter(allStudents, LAMBDA s : s.ID \notin assignedIDs)
      unassignedPart ==
        IF Len(finalUnassignedStudents) > 0
        THEN <<Warning(0, "", "unassigned", TRUE,
                       [i \in 1..Len(finalUnassignedStudents) |-> finalUnassignedStudents[i].ID])>>
        ELSE <<>>
  IN [teams |-> kept,
      warnings |-> SortWarnings(countPart \o unassignedPart
                                \o TeamWarningsFrom(1, 1, kept, selectedSubjects, mins))]

(***************************************************************************)
(* roleUtils.ts and roleToSubjectTransform.ts.  A role is                  *)
(* [id, subjects, minimumStudents].                                        *)
(***************************************************************************)
canStudentFulfillRole(student, role) ==
  \E i \in 1..Len(student.Materias) : Includes(role.subjects, student.Materias[i].subject)

countStudentsWithRole(team, role) ==
  Len(Filter(team.students, LAMBDA s : canStudentFulfillRole(s, role)))

getConfiguredRoleMinimum(role, minMode, globalMinStudents, individualMinRoles) ==
  IF minMode = "individual"
  THEN Max(1, IF role.id \in DOMAIN individualMinRoles
              THEN individualMinRoles[role.id] ELSE role.minimumStudents)
  ELSE Max(1, globalMinStudents)

\* getStudentSubjectForRole: the first enrolment of the student in one of the
\* role's subjects, as a sequence of at most one entry (undefined is <<>>).
getStudentSubjectForRole(student, role) ==
  LET index == FindIndex(student.Materias, LAMBDA sg : Includes(role.subjects, sg.subject))
  IN IF index = 0 THEN <<>> ELSE <<student.Materias[index]>>

getUpperLimitForRoleInTeam(role, minMode, globalMinStudents, individualMinRoles) ==
  getConfiguredRoleMinimum(role, minMode, globalMinStudents, individualMinRoles) + 1

getGroupsForRoleInTeam(team, role) ==
  UNION {{getStudentSubjectForRole(team.students[k], role)[j].group :
            j \in 1..Len(getStudentSubjectForRole(team.students[k], role))} :
         k \in 1..Len(team.students)}

wouldCreateRoleGroupConflict(student, team, role) ==
  LET studentSubjectGroup == getStudentSubjectForRole(student, role)
      existingGroups == getGroupsForRoleInTeam(team, role)
  IN /\ studentSubjectGroup # <<>>
     /\ existingGroups # {}
     /\ studentSubjectGroup[1].group \notin existingGroups

(***************************************************************************)
(* balanceTeams.ts, role-based balancing.  cfg is [selectedRoles, mins];   *)
(* w.commit is teamRoleGroupCommitment, a map from team ids to maps from   *)
(* role ids to groups.  A pass returns [w, moved, trace]; the trace holds, *)
(* for each move, the role balanced, the student, the two team ids and the *)
(* world before and after the move.                                        *)
(***************************************************************************)
RoleMinOf(role, mins) ==
  getConfiguredRoleMinimum(role, mins.minMode, mins.global, mins.individual)

RoleUpperOf(role, mins) ==
  getUpperLimitForRoleInTeam(role, mins.minMode, mins.global, mins.individual)

canMoveWithoutBreakingOtherRoleMinimums(student, team, selectedRoles, excludeRole, mins) ==
  \A r \in 1..Len(selectedRoles) :
    (selectedRoles[r].id # excludeRole.id /\ canStudentFulfillRole(student, selectedRoles[r]))
      => ~(countStudentsWithRole(team, selectedRoles[r]) - 1 < RoleMinOf(selectedRoles[r], mins))

removeStudentFromRole(w, student, teamId, role) ==
  LET ti == TeamIndex(w.teams, teamId)
      index == FindIndex(w.teams[ti].students, LAMBDA s : s.ID = student.ID)
      members == RemoveAt(w.teams[ti].students, index)
  IN IF index = 0 THEN w
     ELSE [teams |-> [w.teams EXCEPT ![ti].students = members],
           commit |-> IF /\ Len(Filter(members, LAMBDA s : canStudentFulfillRole(s, role))) = 0
                         /\ teamId \in DOMAIN w.commit
                      THEN [w.commit EXCEPT ![teamId] = MapDelete(@, role.id)]
                      ELSE w.commit]

assignStudentToRole(w, student, teamId, role) ==
  LET ti == TeamIndex(w.teams, teamId)
      studentSubjectGroup == getStudentSubjectForRole(student, role)
      roleCommitments == IF teamId \in DOMAIN w.commit THEN w.commit[teamId] ELSE EmptyMap
  IN [teams |-> [w.teams EXCEPT ![ti].students = Append(@, student)],
      commit |-> IF studentSubjectGroup # <<>>
                 THEN MapSet(w.commit, teamId,
                             MapSet(roleCommitments, role.id, studentSubjectGroup[1].group))
                 ELSE w.commit]

\* The pair of calls every move of the role balancing is made of (lines
\* 320-321 and 363-364), and the entry the move adds to the trace.
RoleMove(w, student, fromTeamId, toTeamId, role) ==
  [role |-> role, student |-> student, from |-> fromTeamId, to |-> toTeamId, before |-> w,
   after |-> assignStudentToRole(removeStudentFromRole(w, student, fromTeamId, role),
                                 student, toTeamId, role)]

\* The ids of the teams whose count for the role is below (above) the minimum.
TeamIdsWhere(teams, role, configuredMin, below) ==
  LET chosen == Filter(teams, LAMBDA team : IF below
                                            THEN countStudentsWithRole(team, role) < configuredMin
                                            ELSE countStudentsWithRole(team, role) > configuredMin)
  IN [i \in 1..Len(chosen) |-> chosen[i].id]

\* availableStudents (lines 310-313).
AvailableForRole(w, surplusId, role, cfg) ==
  Filter(TeamById(w.teams, surplusId).students,
         LAMBDA student :
           /\ canStudentFulfillRole(student, role)
           /\ canMoveWithoutBreakingOtherRoleMinimums(student, TeamById(w.teams, surplusId),
                                                      cfg.selectedRoles, role, cfg.mins))

RECURSIVE RoleMovesFromTeam(_, _, _, _, _, _, _, _, _)
\* The loop over availableStudents (lines 316-325) from index k on:
\* [w, movedFromThisTeam, trace].
RoleMovesFromTeam(w, role, needyId, surplusId, availableStudents, k, movedFromThisTeam, neededCount, trace) ==
  IF k > Len(availableStudents) \/ movedFromThisTeam >= neededCount
  THEN [w |-> w, movedFromThisTeam |-> movedFromThisTeam, trace |-> trace]
  ELSE IF ~wouldCreateRoleGroupConflict(availableStudents[k], TeamById(w.teams, needyId), role)
  THEN LET After(move) ==
             RoleMovesFromTeam(move.after, role, needyId, surplusId, availableStudents, k + 1,
                               movedFromThisTeam + 1, neededCount, Append(trace, move))
       IN With(RoleMove(w, availableStudents[k], surplusId, needyId, role), After)
  ELSE RoleMovesFromTeam(w, role, needyId, surplusId, availableStudents, k + 1,
                         movedFromThisTeam, neededCount, trace)

RECURSIVE RoleSurplusFrom(_, _, _, _, _, _, _, _)
\* The loop over teamsWithSurplus (lines 309-328) from index si on: [w, trace].
RoleSurplusFrom(w, role, needyId, surplusIds, si, neededCount, trace, cfg) ==
  IF si > Len(surplusIds) THEN [w |-> w, trace |-> trace]
  ELSE
    LET After(res) ==
          IF res.movedFromThisTeam >= neededCount
          THEN [w |-> res.w, trace |-> res.trace]
          ELSE RoleSurplusFrom(res.w, role, needyId, surplusIds, si + 1, neededCount,
                               res.trace, cfg)
    IN With(RoleMovesFromTeam(w, role, needyId, surplusIds[si],
                              AvailableForRole(w, surplusIds[si], role, cfg), 1, 0,
                              neededCount, trace),
            After)

RECURSIVE RoleNeedyFrom(_, _, _, _, _, _, _)
\* The loop over teamsNeedingMore (lines 306-329) from index ni on: [w, trace].
RoleNeedyFrom(w, role, needyIds, ni, surplusIds, trace, cfg) ==
  IF ni > Len(needyIds) THEN [w |-> w, trace |-> trace]
  ELSE
    LET After(res) == RoleNeedyFrom(res.w, role, needyIds, ni + 1, surplusIds, res.trace, cfg)
    IN With(RoleSurplusFrom(w, role, needyIds[ni], surplusIds, 1,
                            RoleMinOf(role, cfg.mins)
                              - countStudentsWithRole(TeamById(w.teams, needyIds[ni]), role),
                            trace, cfg),
            After)

RECURSIVE MeetRoleMinimumsFrom(_, _, _, _)
\* The loop over selectedRoles of moveStudentsToMeetRoleMinimums from role
\* index r on.
MeetRoleMinimumsFrom(w, r, trace, cfg) ==
  IF r > Len(cfg.selectedRoles) THEN [w |-> w, moved |-> trace # <<>>, trace |-> trace]
  ELSE
    LET After(res) == MeetRoleMinimumsFrom(res.w, r + 1, res.trace, cfg)
    IN With(RoleNeedyFrom(w, cfg.selectedRoles[r],
                          TeamIdsWhere(w.teams, cfg.selectedRoles[r],
                                       RoleMinOf(cfg.selectedRoles[r], cfg.mins), TRUE),
                          1,
                          TeamIdsWhere(w.teams, cfg.selectedRoles[r],
                                       RoleMinOf(cfg.selectedRoles[r], cfg.mins), FALSE),
                          trace, cfg),
            After)

moveStudentsToMeetRoleMinimums(w, cfg) == MeetRoleMinimumsFrom(w, 1, <<>>, cfg)

\* One iteration of the while-loop of moveStudentsToRespectRoleUpperLimits
\* (lines 351-372) for a role and a source team: [moved, move].
RoleUpperLimitMove(w, role, sourceId, cfg) ==
  LET sourceTeam == TeamById(w.teams, sourceId)
      upperLimit == RoleUpperOf(role, cfg.mins)
      studentsForRole == AvailableForRole(w, sourceId, role, cfg)
      potentialDestinations ==
        SortByKey(Filter(w.teams,
                         LAMBDA team : team.id # sourceId
                                       /\ countStudentsWithRole(team, role) < upperLimit),
                  LAMBDA team : countStudentsWithRole(team, role))
      di == FindIndex(potentialDestinations,
                      LAMBDA destTeam :
                        ~wouldCreateRoleGroupConflict(studentsForRole[1], destTeam, role))
  IN IF ~(countStudentsWithRole(sourceTeam, role) > upperLimit)
        \/ Len(studentsForRole) = 0 \/ di = 0
     THEN [moved |-> FALSE]
     ELSE [moved |-> TRUE,
           move |-> RoleMove(w, studentsForRole[1], sourceId, potentialDestinations[di].id,
                             role)]

RECURSIVE RespectRoleUpperFrom(_, _, _, _, _)
\* The two for-loops of moveStudentsToRespectRoleUpperLimits from role index
\* r and team index ti on.
RespectRoleUpperFrom(w, r, ti, trace, cfg) ==
  IF r > Len(cfg.selectedRoles) THEN [w |-> w, moved |-> trace # <<>>, trace |-> trace]
  ELSE IF ti > Len(w.teams) THEN RespectRoleUpperFrom(w, r + 1, 1, trace, cfg)
  ELSE
    LET After(step) ==
          IF step.moved
          THEN RespectRoleUpperFrom(step.move.after, r, ti, Append(trace, step.move), cfg)
          ELSE RespectRoleUpperFrom(w, r, ti + 1, trace, cfg)
    IN With(RoleUpperLimitMove(w, cfg.selectedRoles[r], w.teams[ti].id, cfg), After)

moveStudentsToRespectRoleUpperLimits(w, cfg) == RespectRoleUpperFrom(w, 1, 1, <<>>, cfg)

\* The virtual group of an enrolment: `${subject} ${group}`.
VirtualGroup(sg) == sg.subject \o " " \o sg.group

RECURSIVE VirtualMateriasOfOneRole(_, _, _)
\* The virtual enrolments of a student represented under the first role it
\* qualifies for only.
VirtualMateriasOfOneRole(student, roles, r) ==
  IF r > Len(roles) THEN <<>>
  ELSE
    LET matching == Filter(student.Materias, LAMBDA sg : Includes(roles[r].subjects, sg.subject))
    IN IF Len(matching) > 0
       THEN [i \in 1..Len(matching) |-> [subject |-> roles[r].id, group |-> VirtualGroup(matching[i])]]
       ELSE VirtualMateriasOfOneRole(student, roles, r + 1)

RECURSIVE VirtualMaterias(_, _, _)
\* roles.forEach(role => student.Materias.forEach(...)) from role r on.
VirtualMaterias(student, roles, r) ==
  IF r > Len(roles) THEN <<>>
  ELSE
    LET matching == Filter(student.Materias, LAMBDA sg : Includes(roles[r].subjects, sg.subject))
    IN [i \in 1..Len(matching) |-> [subject |-> roles[r].id, group |-> VirtualGroup(matching[i])]]
       \o VirtualMaterias(student, roles, r + 1)

\* virtualStudents of transformRolesToVirtualSubjects.
transformRolesToVirtualSubjects(students, roles) ==
  Filter([i \in 1..Len(students) |->
            [ID |-> students[i].ID, Materias |-> VirtualMaterias(students[i], roles, 1)]],
         LAMBDA v : Len(v.Materias) > 0)

\* virtualIndividualMin of transformRoleMinimums (virtualMinMode is always
\* "individual", virtualGlobalMin is globalMinStudents).
transformRoleMinimums(minMode, globalMinStudents, individualMinRoles, roles) ==
  [id \in {roles[r].id : r \in 1..Len(roles)} |->
     IF minMode = "individual" /\ id \in DOMAIN individualMinRoles
     THEN individualMinRoles[id]
     ELSE globalMinStudents]

\* Array.from(mapping.virtualSubjectToRole.keys()): the role ids in insertion order.
getVirtualSubjectsFromMapping(roles) == [r \in 1..Len(roles) |-> roles[r].id]

\* The engine's result handed back as it is.
transformResultBackUnchanged(resultTeams, resultWarnings, roles, originalStudents) ==
  [teams |-> resultTeams, warnings |-> resultWarnings, thrown |-> FALSE]

\* transformResultBackToRoles: [teams, warnings, thrown].
transformResultBackToRoles(resultTeams, resultWarnings, roles, originalStudents) ==
  LET Known(id) == \E i \in 1..Len(originalStudents) : originalStudents[i].ID = id
      \* studentMap.get(id): the last record set for the ID
      Original(id) == originalStudents[CHOOSE i \in 1..Len(originalStudents) :
                                         /\ originalStudents[i].ID = id
                                         /\ \A j \in (i + 1)..Len(originalStudents) :
                                              originalStudents[j].ID # id]
      missing == \E t \in 1..Len(resultTeams) :
                   \E k \in 1..Len(resultTeams[t].students) :
                     ~Known(resultTeams[t].students[k].ID)
      IsRole(subject) == \E r \in 1..Len(roles) : roles[r].id = subject
      Back(warning) ==
        IF warning.subject # "" /\ IsRole(warning.subject)
        THEN [warning EXCEPT !.role = warning.subject, !.subject = ""]
        ELSE warning
  IN IF missing
     THEN [teams |-> <<>>, warnings |-> <<>>, thrown |-> TRUE]
     ELSE [teams |-> [t \in 1..Len(resultTeams) |->
                        [resultTeams[t] EXCEPT !.students =
                           [k \in 1..Len(resultTeams[t].students) |->
                              Original(resultTeams[t].students[k].ID)]]],
           warnings |-> [i \in 1..Len(resultWarnings) |-> Back(resultWarnings[i])],
           thrown |-> FALSE]

(***************************************************************************)
(* The allocation run as a state machine.                                  *)
(*   call     the arguments of the call under analysis                     *)
(*   args     the arguments allocateTeams runs with (the virtual ones in   *)
(*            role mode)                                                   *)
(*   pc       the phase allocateTeams is in                                *)
(*   plan     effectiveNumberOfTeams, sortedSubjectList and                *)
(*            studentsSortedByConstraint                                   *)
(*   teams, commit, assigned                                               *)
(*            the teams array, teamSubjectGroupCommitment and              *)
(*            assignedStudentIDs                                           *)
(*   loop     the local variables of the loop the phase is in              *)
(*   result   the value returned to the caller                             *)
(*   twin     the comparison of a role-mode request with the subject-mode  *)
(*            request for the same roster: the random orders the first     *)
(*            request drew, the position of the second request in them,    *)
(*            and the first request and its result                         *)
(***************************************************************************)
VARIABLES call, args, pc, plan, teams, commit, assigned, loop, result, twin

vars == <<call, args, pc, plan, teams, commit, assigned, loop, result, twin>>

Subjects == <<"M", "P">>

Groups == {"A", "B"}

\* The enrolment lists of the rosters: one or both subjects, one group each.
EnrolmentLists ==
  {<<[subject |-> "M", group |-> g]>> : g \in Groups}
  \cup {<<[subject |-> "P", group |-> g]>> : g \in Groups}
  \cup {<<[subject |-> "M", group |-> g], [subject |-> "P", group |-> h]>> : g, h \in Groups}

Minimums == 1..MaxMin

\* The key sets of the individual-minimum maps: none, the first, or all of
\* the criterion names.
MapDomains(names) == {{}, {names[1]}, SeqToSet(names)}

\* The minimum-mode arguments: minMode, globalMinStudents, and the individual
\* map over the given criterion names.
MinimumArgs(names) ==
  {[minMode |-> "global", globalMin |-> g, individualMin |-> EmptyMap] : g \in 0..MaxMin}
  \cup {[minMode |-> "individual", globalMin |-> 1, individualMin |-> m] :
          m \in UNION {[d -> Minimums] : d \in MapDomains(names)}}

\* A call of allocateTeams.
SubjectCall(r, s, n, m) ==
  [mode |-> "subject", allStudents |-> r, selectedSubjects |-> s, selectedRoles |-> <<>>,
   userRequestedNumberOfTeams |-> n, minMode |-> m.minMode,
   globalMin |-> m.globalMin, individualMin |-> m.individualMin]

\* A role: [id, subjects, minimumStudents] (types/index.ts).
Role(id, subjects, minimumStudents) ==
  [id |-> id, subjects |-> subjects, minimumStudents |-> minimumStudents]

RoleNames == <<"R1", "R2">>

\* The selected-role lists: one role over one subject, one role over both
\* subjects, two roles over one subject each, and two roles whose subject
\* sets overlap.
RoleLists ==
  UNION {{<<Role("R1", <<"M">>, ms)>>,
          <<Role("R1", <<"M", "P">>, ms)>>,
          <<Role("R1", <<"M">>, ms), Role("R2", <<"P">>, ms)>>,
          <<Role("R1", <<"M", "P">>, ms), Role("R2", <<"P">>, ms)>>} : ms \in Minimums}

\* A call of allocateTeamsByRoles.
RoleCall(r, roles, n, m) ==
  [mode |-> "role", allStudents |-> r, selectedSubjects |-> <<>>, selectedRoles |-> roles,
   userRequestedNumberOfTeams |-> n, minMode |-> m.minMode,
   globalMin |-> m.globalMin, individualMin |-> m.individualMin]

\* A role-mode call with a single role over a single subject and a roster
\* enrolled in that subject only: the calls whose result is compared with
\* the subject-mode result.
SingleSubjectRole(c) ==
  /\ c.mode = "role"
  /\ Len(c.selectedRoles) = 1
  /\ Len(c.selectedRoles[1].subjects) = 1
  /\ \A i \in 1..Len(c.allStudents) :
       \A j \in 1..Len(c.allStudents[i].Materias) :
         c.allStudents[i].Materias[j].subject = c.selectedRoles[1].subjects[1]

\* The subject-mode call on the role's subject with the role's configured
\* minimum.
SubjectTwin(c) ==
  SubjectCall(c.allStudents, c.selectedRoles[1].subjects, c.userRequestedNumberOfTeams,
              [minMode |-> "individual", globalMin |-> c.globalMin,
               individualMin |->
                 (c.selectedRoles[1].subjects[1]
                    :> getConfiguredRoleMinimum(c.selectedRoles[1], c.minMode, c.globalMin,
                                                c.individualMin))])

NoTwin == [stage |-> "off", log |-> <<>>, pos |-> 1]

Cfg ==
  [selectedSubjects |-> args.selectedSubjects,
   mins |-> [minMode |-> args.minMode, global |-> args.globalMinStudents,
             individual |-> args.individualMinStudents]]

World == [teams |-> teams, commit |-> commit]

Idle == [at |-> "idle"]

NoResult == [teams |-> <<>>, warnings |-> <<>>, thrown |-> FALSE]

\* The calls with rosters of at most the given sizes, before their first step.
InitWith(maxStudents, maxRoleStudents) ==
  /\ \/ \E n \in 0..maxStudents :
          \E m \in [1..n -> EnrolmentLists] :
            \E s \in {<<>>, <<"M">>, <<"M", "P">>} :
              \E k \in (-1)..MaxTeams :
                \E mins \in MinimumArgs(Subjects) :
                  call = SubjectCall([i \in 1..n |-> [ID |-> i, Materias |-> m[i]]], s, k, mins)
     \/ \E n \in 0..maxRoleStudents :
          \E m \in [1..n -> EnrolmentLists] :
            \E roles \in RoleLists :
              \E k \in 0..MaxTeams :
                \E mins \in MinimumArgs(RoleNames) :
                  call = RoleCall([i \in 1..n |-> [ID |-> i, Materias |-> m[i]]], roles, k, mins)
  /\ twin = IF SingleSubjectRole(call) THEN [NoTwin EXCEPT !.stage = "first"] ELSE NoTwin
  /\ args = Idle
  /\ pc = "start"
  /\ plan = Idle
  /\ teams = <<>>
  /\ commit = EmptyMap
  /\ assigned = {}
  /\ loop = Idle
  /\ result = NoResult

Init == InitWith(MaxStudents, MaxRoleStudents)

\* What the caller receives: allocateTeams' own return value, or in role
\* mode that value passed through transformResultBackToRoles.
Returned(resultTeams, resultWarnings) ==
  IF call.mode = "role"
  THEN transformResultBackToRoles(resultTeams, resultWarnings, call.selectedRoles,
                                  call.allStudents)
  ELSE [teams |-> resultTeams, warnings |-> resultWarnings, thrown |-> FALSE]

\* The next control state, as a record [pc, loop, w, assigned].
Become(n) ==
  /\ pc' = n.pc
  /\ loop' = n.loop
  /\ teams' = n.w.teams
  /\ commit' = n.w.commit
  /\ assigned' = n.assigned

(***************************************************************************)
(* Loop control of the four phases.                                        *)
(***************************************************************************)
\* availableStudentsForSubject at the top of the subject loop (lines 173-174).
AvailableFor(subject, sortedStudents, assignedIDs) ==
  Filter(sortedStudents, LAMBDA s : s.ID \notin assignedIDs /\ HasSubject(s, subject))

\* The condition of the inner for-loop of assignMinimumsBySubject together
\* with the break of line 182.
Phase1Runs(i, needed, avail, assignedIDs) ==
  /\ i < needed
  /\ Len(avail) > 0
  /\ FindIndex(avail, LAMBDA s : s.ID \notin assignedIDs) # 0

\* Entry of localSearch (lines 68-70): averageTeamSize is
\* assignedCount / effectiveNumberOfTeams.
EnterLocalSearch(w, assignedIDs) ==
  [pc |-> "localSearch",
   loop |-> [iterations |-> 0, overallImproved |-> FALSE,
             assignedCount |-> Cardinality(assignedIDs)],
   w |-> w, assigned |-> assignedIDs]

RECURSIVE Phase2Next(_, _, _, _)
\* The top of the student loop of assignRemainingStudents at index k: skip
\* assigned students, sort the teams by size, start the team loop.
Phase2Next(w, assignedIDs, remainingStudents, k) ==
  IF k > Len(remainingStudents) THEN EnterLocalSearch(w, assignedIDs)
  ELSE IF remainingStudents[k].ID \in assignedIDs
  THEN Phase2Next(w, assignedIDs, remainingStudents, k + 1)
  ELSE [pc |-> "phase2",
        loop |-> [remainingStudents |-> remainingStudents, k |-> k, t |-> 1],
        w |-> [w EXCEPT !.teams = SortByKey(w.teams, LAMBDA team : Len(team.students))],
        assigned |-> assignedIDs]

EnterPhase2(w, assignedIDs, sortedStudents) ==
  Phase2Next(w, assignedIDs,
             Filter(sortedStudents, LAMBDA s : s.ID \notin assignedIDs), 1)

RECURSIVE Phase1Seek(_, _, _, _, _, _, _)
\* The next position (subject s, team t) of assignMinimumsBySubject at which
\* the inner loop runs at least once; Phase 2 if there is none.
Phase1Seek(w, assignedIDs, s, t, avail, p, cfg) ==
  IF s > Len(p.sortedSubjectList) THEN EnterPhase2(w, assignedIDs, p.studentsSortedByConstraint)
  ELSE IF t > Len(w.teams)
  THEN IF s + 1 > Len(p.sortedSubjectList)
       THEN EnterPhase2(w, assignedIDs, p.studentsSortedByConstraint)
       ELSE Phase1Seek(w, assignedIDs, s + 1, 1,
                       AvailableFor(p.sortedSubjectList[s + 1], p.studentsSortedByConstraint,
                                    assignedIDs),
                       p, cfg)
  ELSE
    LET subject == p.sortedSubjectList[s]
        needed == MinOf(subject, cfg.mins) - countStudentsWithSubject(w.teams[t], subject)
    IN IF Phase1Runs(0, needed, avail, assignedIDs)
       THEN [pc |-> "phase1",
             loop |-> [s |-> s, t |-> t, i |-> 0, needed |-> needed, avail |-> avail,
                       cur |-> <<>>],
             w |-> w, assigned |-> assignedIDs]
       ELSE Phase1Seek(w, assignedIDs, s, t + 1, avail, p, cfg)

(***************************************************************************)
(* Actions.                                                                *)
(***************************************************************************)
\* allocateTeams lines 17-53 with the given arguments: the plan, the early
\* return, the creation of the teams and the entry of Phase 1.
StartAllocation(a) ==
  /\ args' = a
  /\ UNCHANGED <<call, twin>>
  /\ \E calc \in {determineOrderAllocation(a.allStudents, a.selectedSubjects,
                                           a.userRequestedNumberOfTeams, a.minMode,
                                           a.globalMinStudents, a.individualMinStudents)} :
       IF calc.effectiveNumberOfTeams <= 0
       THEN /\ plan' = [effectiveNumberOfTeams |-> calc.effectiveNumberOfTeams,
                        sortedSubjectList |-> calc.sortedSubjectList,
                        studentsSortedByConstraint |-> <<>>]
            /\ result' = Returned(<<>>, <<Warning(0, "", "planFailed", TRUE,
                                                  calc.criticalWarning)>>)
            /\ Become([pc |-> "done", loop |-> Idle,
                       w |-> [teams |-> <<>>, commit |-> EmptyMap], assigned |-> {}])
       ELSE \E p \in {[effectiveNumberOfTeams |-> calc.effectiveNumberOfTeams,
                       sortedSubjectList |-> calc.sortedSubjectList,
                       studentsSortedByConstraint |->
                         SortByKey(a.allStudents, LAMBDA s : Len(s.Materias))]} :
              /\ plan' = p
              /\ UNCHANGED result
              /\ \E n \in {Phase1Seek(
                             [teams |-> [i \in 1..p.effectiveNumberOfTeams |->
                                           [id |-> i, students |-> <<>>]],
                              commit |-> [i \in 1..p.effectiveNumberOfTeams |-> EmptyMap]],
                             {}, 1, 1,
                             AvailableFor(p.sortedSubjectList[1],
                                          p.studentsSortedByConstraint, {}),
                             p,
                             [selectedSubjects |-> a.selectedSubjects,
                              mins |-> [minMode |-> a.minMode, global |-> a.globalMinStudents,
                                        individual |-> a.individualMinStudents]])} :
                   Become(n)

\* A call of allocateTeams (subject mode).
CallAllocateTeams ==
  /\ pc = "start"
  /\ call.mode = "subject"
  /\ StartAllocation([allStudents |-> call.allStudents,
                      selectedSubjects |-> call.selectedSubjects,
                      userRequestedNumberOfTeams |-> call.userRequestedNumberOfTeams,
                      minMode |-> call.minMode,
                      globalMinStudents |-> call.globalMin,
                      individualMinStudents |-> call.individualMin])

\* A call of allocateTeamsByRoles: steps 1-3 and the call of allocateTeams.
CallAllocateTeamsByRoles ==
  /\ pc = "start"
  /\ call.mode = "role"
  /\ \E a \in {[allStudents |->
                  transformRolesToVirtualSubjects(call.allStudents, call.selectedRoles),
                selectedSubjects |-> getVirtualSubjectsFromMapping(call.selectedRoles),
                userRequestedNumberOfTeams |-> call.userRequestedNumberOfTeams,
                minMode |-> "individual",
                globalMinStudents |-> call.globalMin,
                individualMinStudents |->
                  transformRoleMinimums(call.minMode, call.globalMin,
                                        call.individualMin, call.selectedRoles)]} :
       StartAllocation(a)

\* Phase 1, lines 181-184: take the first unassigned available student.
Phase1Pop ==
  /\ pc = "phase1"
  /\ loop.cur = <<>>
  /\ LET studentToAttemptIndex == FindIndex(loop.avail, LAMBDA s : s.ID \notin assigned)
     IN loop' = [loop EXCEPT !.cur = <<loop.avail[studentToAttemptIndex]>>,
                             !.avail = RemoveAt(loop.avail, studentToAttemptIndex)]
  /\ UNCHANGED <<call, args, pc, plan, teams, commit, assigned, result, twin>>

\* The record of the random orders: a request that is compared later logs
\* the order of each shuffle that decides an outcome, the request compared
\* with it advances through that log.
Drawn(order, shuffled) ==
  IF ~shuffled THEN twin
  ELSE IF twin.stage = "first" THEN [twin EXCEPT !.log = Append(@, order)]
  ELSE IF twin.stage = "second" THEN [twin EXCEPT !.pos = @ + 1]
  ELSE twin

\* The record of the orders localSearch draws (line 44).  When the same
\* request is run twice, only these orders are logged by the first run and
\* followed by the second; the shuffles of tryResolveConflict are left to
\* each run.
DrawnBySearch(order) ==
  IF twin.stage = "firstRun" THEN [twin EXCEPT !.log = Append(@, order)]
  ELSE IF twin.stage = "secondRun" THEN [twin EXCEPT !.pos = @ + 1]
  ELSE Drawn(order, TRUE)

\* Lines 186-196 and 239-249, shared by Phase 1 and Phase 2: the conflict
\* test, the attempt to resolve a conflict, and the re-check.  Returns
\* [canAssign, w, shuffled]; shuffled tells whether tryResolveConflict moved
\* a student to the first free team of its shuffled destinations.
AttemptPlacement(w, student, teamId, order, selectedSubjects) ==
  LET Resolve(conflict) ==
        [called |-> conflict.found,
         res |-> IF conflict.found
                 THEN tryResolveConflict(w, teamId, conflict.subject, conflict.group, order,
                                         selectedSubjects)
                 ELSE [ok |-> TRUE, w |-> w]]
      Recheck(resolved) ==
        [canAssign |->
           resolved.res.ok
           /\ ~findGroupConflict(student, TeamById(resolved.res.w.teams, teamId),
                                 resolved.res.w.commit).found,
         w |-> resolved.res.w,
         shuffled |-> resolved.called /\ resolved.res.ok]
  IN With(With(findGroupConflict(student, TeamById(w.teams, teamId), w.commit), Resolve),
          Recheck)

\* Phase 1, lines 186-204 and the loop control that follows: try to place
\* the student taken, resolving a conflict if there is one.
Phase1Try(order) ==
  /\ pc = "phase1"
  /\ loop.cur # <<>>
  /\ LET studentToAttempt == loop.cur[1]
         \* the control state after the attempt: the same inner loop, or the
         \* next position
         Continue(w1, assigned1, i1, avail1) ==
           IF Phase1Runs(i1, loop.needed, avail1, assigned1)
           THEN [pc |-> "phase1",
                 loop |-> [loop EXCEPT !.i = i1, !.avail = avail1, !.cur = <<>>],
                 w |-> w1, assigned |-> assigned1]
           ELSE Phase1Seek(w1, assigned1, loop.s, loop.t + 1, avail1, plan, Cfg)
     IN \E attempt \in {AttemptPlacement(World, studentToAttempt, teams[loop.t].id, order,
                                         Cfg.selectedSubjects)} :
          /\ twin' = Drawn(order, attempt.shuffled)
          /\ \E n \in {IF attempt.canAssign
                       THEN Continue(assignStudent(attempt.w, studentToAttempt,
                                                   teams[loop.t].id, Cfg.selectedSubjects),
                                     assigned \cup {studentToAttempt.ID}, loop.i + 1,
                                     loop.avail)
                       ELSE Continue(attempt.w, assigned, loop.i,
                                     Append(loop.avail, studentToAttempt))} :
               Become(n)
  /\ UNCHANGED <<call, args, plan, result>>

\* Phase 2, lines 231-265 for one student and one team, and the loop control
\* that follows.
Phase2Try(order) ==
  /\ pc = "phase2"
  /\ LET student == loop.remainingStudents[loop.k]
     IN \E attempt \in {AttemptPlacement(World, student, teams[loop.t].id, order,
                                         Cfg.selectedSubjects)} :
          /\ twin' = Drawn(order, attempt.shuffled)
          /\ \E n \in {IF /\ attempt.canAssign
                          /\ ~ViolatesUpperLimit(student,
                                                 TeamById(attempt.w.teams, teams[loop.t].id),
                                                 Cfg.selectedSubjects, Cfg.mins, "")
                       THEN Phase2Next(assignStudent(attempt.w, student, teams[loop.t].id,
                                                     Cfg.selectedSubjects),
                                       assigned \cup {student.ID}, loop.remainingStudents,
                                       loop.k + 1)
                       ELSE IF loop.t + 1 > Len(teams)
                       THEN Phase2Next(attempt.w, assigned, loop.remainingStudents,
                                       loop.k + 1)
                       ELSE [pc |-> "phase2", loop |-> [loop EXCEPT !.t = loop.t + 1],
                             w |-> attempt.w, assigned |-> assigned]} :
               Become(n)
  /\ UNCHANGED <<call, args, plan, result>>

\* Entry of finalBalancing (line 71).
\* searched is the state localSearch returned in: its iterations and the
\* value it returned.
EnterBalancing(w, searched) ==
  [pc |-> "balanceMin",
   loop |-> [passCount |-> 0, upperPassCount |-> 0, startTeams |-> w.teams,
             before |-> w.teams, trace |-> <<>>, searched |-> searched],
   w |-> w, assigned |-> assigned]

\* One pass of the while-loop of localSearch.
LocalSearchPass(order) ==
  /\ pc = "localSearch"
  /\ loop.iterations < DefaultMaxIterations
  /\ \E pass \in {localSearchPass(World, order, Cfg, loop.assignedCount,
                                  plan.effectiveNumberOfTeams)} :
       IF pass.swapped /\ loop.iterations + 1 < DefaultMaxIterations
       THEN Become([pc |-> "localSearch",
                    loop |-> [loop EXCEPT !.iterations = loop.iterations + 1,
                                          !.overallImproved = TRUE],
                    w |-> pass.w, assigned |-> assigned])
       ELSE Become(EnterBalancing(pass.w,
                                  [iterations |-> loop.iterations + 1,
                                   overallImproved |-> loop.overallImproved \/ pass.swapped]))
  /\ twin' = DrawnBySearch(order)
  /\ UNCHANGED <<call, args, plan, result>>

\* One pass of the first do-while of finalBalancing.
BalanceMinimumsPass ==
  /\ pc = "balanceMin"
  /\ LET MAX_PASSES == Len(teams) * Len(Cfg.selectedSubjects) * 3
     IN \E pass \in {moveStudentsToMeetMinimums(World, Cfg)} :
          Become([pc |-> IF pass.moved /\ loop.passCount + 1 < MAX_PASSES
                         THEN "balanceMin" ELSE "balanceUpper",
                  loop |-> [loop EXCEPT !.passCount = loop.passCount + 1,
                                        !.before = teams, !.trace = pass.trace],
                  w |-> pass.w, assigned |-> assigned])
  /\ UNCHANGED <<call, args, plan, result, twin>>

\* One pass of the second do-while of finalBalancing.
BalanceUpperLimitsPass ==
  /\ pc = "balanceUpper"
  /\ LET MAX_UPPER_PASSES == Len(teams) * Len(Cfg.selectedSubjects)
     IN \E pass \in {moveStudentsToRespectUpperLimits(World, Cfg)} :
          Become([pc |-> IF pass.moved /\ loop.upperPassCount + 1 < MAX_UPPER_PASSES
                         THEN "balanceUpper" ELSE "warnings",
                  loop |-> [loop EXCEPT !.upperPassCount = loop.upperPassCount + 1,
                                        !.before = teams, !.trace = pass.trace],
                  w |-> pass.w, assigned |-> assigned])
  /\ UNCHANGED <<call, args, plan, result, twin>>

\* Phase 4 (lines 74-151) and the return to the caller.
SynthesizeWarnings ==
  /\ pc = "warnings"
  /\ \E final \in {FinalWarnings(teams, args.allStudents, assigned,
                                   plan.effectiveNumberOfTeams, Cfg.selectedSubjects,
                                   Cfg.mins)} :
       /\ result' = Returned(final.teams, final.warnings)
       /\ teams' = final.teams
  /\ pc' = "done"
  /\ UNCHANGED <<call, args, plan, commit, assigned, loop, twin>>

\* The next request of the page in subject mode, for the roster and the
\* subject of a finished single-subject role request.
CallAgainBySubject ==
  /\ pc = "done"
  /\ twin.stage = "first"
  /\ call' = SubjectTwin(call)
  /\ twin' = [stage |-> "second", log |-> twin.log, pos |-> 1, first |-> result,
              original |-> call]
  /\ pc' = "start"
  /\ args' = Idle
  /\ plan' = Idle
  /\ teams' = <<>>
  /\ commit' = EmptyMap
  /\ assigned' = {}
  /\ loop' = Idle
  /\ result' = NoResult

\* The random orders a step may draw: the orders of the team ids; the order
\* the compared request drew at the same position, where there is one.
TeamOrders == Orders(1..Len(teams))

Draws ==
  IF twin.stage = "second" /\ twin.pos <= Len(twin.log) /\ twin.log[twin.pos] \in TeamOrders
  THEN {twin.log[twin.pos]}
  ELSE TeamOrders

Next ==
  \/ CallAllocateTeams
  \/ CallAllocateTeamsByRoles
  \/ Phase1Pop
  \/ \E order \in Draws : Phase1Try(order)
  \/ \E order \in Draws : Phase2Try(order)
  \/ \E order \in Draws : LocalSearchPass(order)
  \/ BalanceMinimumsPass
  \/ BalanceUpperLimitsPass
  \/ SynthesizeWarnings
  \/ CallAgainBySubject

Spec == Init /\ [][Next]_vars

\* The run of a request is not interrupted: a step that can be taken is taken.
FairInit == InitWith(MaxFairStudents, MaxFairRoleStudents)

FairSpec == FairInit /\ [][Next]_vars /\ WF_vars(Next)

(***************************************************************************)
(* finalBalancing on its own: it is started on any placement of the        *)
(* roster into the teams, with the commitments assignStudent records for   *)
(* it.                                                                     *)
(***************************************************************************)
RECURSIVE BuildWorld(_, _, _, _, _)
\* The world after assignStudent has put student i, i + 1, ... of the roster
\* into the team `place` names for them.
BuildWorld(w, i, students, place, selectedSubjects) ==
  IF i > Len(students) THEN w
  ELSE BuildWorld(assignStudent(w, students[i], place[i], selectedSubjects),
                  i + 1, students, place, selectedSubjects)

BalanceInit ==
  /\ \E n \in 1..MaxStudents :
       \E m \in [1..n -> EnrolmentLists] :
         \E place \in [1..n -> 1..MaxTeams] :
           \E s \in {<<"M">>, <<"M", "P">>} :
             \E mins \in MinimumArgs(Subjects) :
               LET roster == [i \in 1..n |-> [ID |-> i, Materias |-> m[i]]]
                   w == BuildWorld([teams |-> [i \in 1..MaxTeams |-> [id |-> i, students |-> <<>>]],
                                    commit |-> [i \in 1..MaxTeams |-> EmptyMap]],
                                   1, roster, place, s)
               IN /\ call = SubjectCall(roster, s, MaxTeams, mins)
                  /\ args = [allStudents |-> roster, selectedSubjects |-> s,
                             userRequestedNumberOfTeams |-> MaxTeams,
                             minMode |-> mins.minMode, globalMinStudents |-> mins.globalMin,
                             individualMinStudents |-> mins.individualMin]
                  /\ teams = w.teams
                  /\ commit = w.commit
                  /\ assigned = 1..n
                  /\ loop = [passCount |-> 0, upperPassCount |-> 0, startTeams |-> w.teams,
                             before |-> w.teams, trace |-> <<>>]
  /\ pc = "balanceMin"
  /\ plan = Idle
  /\ result = NoResult
  /\ twin = NoTwin

BalanceNext ==
  \/ BalanceMinimumsPass
  \/ BalanceUpperLimitsPass

BalanceSpec == BalanceInit /\ [][BalanceNext]_vars

(***************************************************************************)
(* tryResolveConflict on its own: the roster but its last student is       *)
(* placed into the teams, no team holding two groups of a subject, and the *)
(* call is made for the last student and a team findGroupConflict reports  *)
(* a conflict for, with the subject and group it reports.                  *)
(***************************************************************************)
ResolveInit ==
  /\ \E n \in 2..MaxStudents :
       \E m \in [1..n -> EnrolmentLists] :
         \E k \in MaxTeams..RerunTeams :
           \E place \in [1..(n - 1) -> 1..k] :
             \E s \in {<<"M">>, <<"M", "P">>} :
               \E targetTeamId \in 1..k :
                 LET roster == [i \in 1..n |-> [ID |-> i, Materias |-> m[i]]]
                     w == BuildWorld([teams |-> [i \in 1..k |-> [id |-> i, students |-> <<>>]],
                                      commit |-> [i \in 1..k |-> EmptyMap]],
                                     1, SubSeq(roster, 1, n - 1), place, s)
                     conflict == findGroupConflict(roster[n], w.teams[targetTeamId], w.commit)
                 IN /\ \A t \in 1..k : \A j \in 1..Len(Subjects) :
                         Cardinality(GroupsInUse(w.teams[t].students, Subjects[j])) <= 1
                    /\ conflict.found
                    /\ call = SubjectCall(roster, s, k,
                                          [minMode |-> "global", globalMin |-> 1,
                                           individualMin |-> EmptyMap])
                    /\ args = [allStudents |-> roster, selectedSubjects |-> s,
                               userRequestedNumberOfTeams |-> k,
                               minMode |-> "global", globalMinStudents |-> 1,
                               individualMinStudents |-> EmptyMap]
                    /\ teams = w.teams
                    /\ commit = w.commit
                    /\ assigned = 1..(n - 1)
                    /\ loop = [at |-> "resolve", studentToAssign |-> roster[n],
                               targetTeamId |-> targetTeamId, conflict |-> conflict]
  /\ pc = "resolve"
  /\ plan = Idle
  /\ result = NoResult
  /\ twin = NoTwin

\* The call of tryResolveConflict (lines 189 and 242) and its return.
CallTryResolveConflict(order) ==
  /\ pc = "resolve"
  /\ \E res \in {tryResolveConflict(World, loop.targetTeamId, loop.conflict.subject,
                                     loop.conflict.group, order, Cfg.selectedSubjects)} :
       /\ teams' = res.w.teams
       /\ commit' = res.w.commit
       /\ loop' = [at |-> "resolved", studentToAssign |-> loop.studentToAssign,
                   targetTeamId |-> loop.targetTeamId, conflict |-> loop.conflict,
                   order |-> order, before |-> World, returned |-> res.ok]
  /\ pc' = "resolved"
  /\ UNCHANGED <<call, args, plan, assigned, result, twin>>

ResolveNext == \E order \in TeamOrders : CallTryResolveConflict(order)

ResolveSpec == ResolveInit /\ [][ResolveNext]_vars

(***************************************************************************)
(* finalBalancingForRoles on its own: it is started on any placement of    *)
(* the roster into the teams in which, for each selected role, the members *)
(* of a team who fulfil the role hold one group, with that group as the    *)
(* team's commitment for the role.                                         *)
(***************************************************************************)
RoleCfg ==
  [selectedRoles |-> args.selectedRoles,
   mins |-> [minMode |-> args.minMode, global |-> args.globalMinStudents,
             individual |-> args.individualMinRoles]]

\* The teams a placement of the roster makes.
PlacedTeams(roster, place) ==
  [t \in 1..MaxTeams |->
     [id |-> t, students |-> SelectSeq(roster, LAMBDA s : place[s.ID] = t)]]

\* The commitments of teams without group conflict: for each team, the group
\* of each role that has members in the team.
RoleCommitments(ts, roles) ==
  [t \in 1..Len(ts) |->
     [id \in {roles[r].id : r \in {q \in 1..Len(roles) :
                                     getGroupsForRoleInTeam(ts[t], roles[q]) # {}}} |->
        CHOOSE g \in getGroupsForRoleInTeam(
                       ts[t], roles[CHOOSE r \in 1..Len(roles) : roles[r].id = id]) : TRUE]]

RoleBalanceInit ==
  /\ \E n \in 1..MaxStudents :
       \E m \in [1..n -> EnrolmentLists] :
         \E place \in [1..n -> 1..MaxTeams] :
           \E roles \in RoleLists :
             \E mins \in MinimumArgs(RoleNames) :
               LET roster == [i \in 1..n |-> [ID |-> i, Materias |-> m[i]]]
                   ts == PlacedTeams(roster, place)
               IN /\ \A t \in 1..MaxTeams : \A r \in 1..Len(roles) :
                       Cardinality(getGroupsForRoleInTeam(ts[t], roles[r])) <= 1
                  /\ call = RoleCall(roster, roles, MaxTeams, mins)
                  /\ args = [allStudents |-> roster, selectedRoles |-> roles,
                             minMode |-> mins.minMode, globalMinStudents |-> mins.globalMin,
                             individualMinRoles |-> mins.individualMin]
                  /\ teams = ts
                  /\ commit = RoleCommitments(ts, roles)
                  /\ assigned = 1..n
  /\ loop = [passCount |-> 0, upperPassCount |-> 0, trace |-> <<>>]
  /\ pc = "roleBalanceMin"
  /\ plan = Idle
  /\ result = NoResult
  /\ twin = NoTwin

\* One pass of the first do-while of finalBalancingForRoles (lines 61-64).
RoleBalanceMinimumsPass ==
  /\ pc = "roleBalanceMin"
  /\ LET MAX_PASSES == Len(teams) * Len(RoleCfg.selectedRoles) * 3
     IN \E pass \in {moveStudentsToMeetRoleMinimums(World, RoleCfg)} :
          Become([pc |-> IF pass.moved /\ loop.passCount + 1 < MAX_PASSES
                         THEN "roleBalanceMin" ELSE "roleBalanceUpper",
                  loop |-> [loop EXCEPT !.passCount = loop.passCount + 1,
                                        !.trace = pass.trace],
                  w |-> pass.w, assigned |-> assigned])
  /\ UNCHANGED <<call, args, plan, result, twin>>

\* One pass of the second do-while of finalBalancingForRoles (lines 68-71).
RoleBalanceUpperLimitsPass ==
  /\ pc = "roleBalanceUpper"
  /\ LET MAX_UPPER_PASSES == Len(teams) * Len(RoleCfg.selectedRoles)
     IN \E pass \in {moveStudentsToRespectRoleUpperLimits(World, RoleCfg)} :
          Become([pc |-> IF pass.moved /\ loop.upperPassCount + 1 < MAX_UPPER_PASSES
                         THEN "roleBalanceUpper" ELSE "roleBalanced",
                  loop |-> [loop EXCEPT !.upperPassCount = loop.upperPassCount + 1,
                                        !.trace = pass.trace],
                  w |-> pass.w, assigned |-> assigned])
  /\ UNCHANGED <<call, args, plan, result, twin>>

RoleBalanceNext ==
  \/ RoleBalanceMinimumsPass
  \/ RoleBalanceUpperLimitsPass

RoleBalanceSpec == RoleBalanceInit /\ [][RoleBalanceNext]_vars

(***************************************************************************)
(* allocateTeams on the rosters of the worked scenarios: every student is  *)
(* enrolled in Math ("M"), in group A or B, some of them also in "P"; and  *)
(* the roster of six students of Math group A.                             *)
(***************************************************************************)
ScenarioLists ==
  {<<[subject |-> "M", group |-> g]>> : g \in Groups}
  \cup {<<[subject |-> "M", group |-> g], [subject |-> "P", group |-> "A"]>> : g \in Groups}

ScenarioMinimums ==
  {[minMode |-> "global", globalMin |-> g, individualMin |-> EmptyMap] : g \in Minimums}
  \cup {[minMode |-> "individual", globalMin |-> 1, individualMin |-> ("M" :> MaxMin)]}

UniformRoster ==
  [i \in 1..6 |-> [ID |-> i, Materias |-> <<[subject |-> "M", group |-> "A"]>>]]

ScenarioInit ==
  /\ \/ \E m \in [1..ScenarioStudents -> ScenarioLists] :
          \E s \in {<<"M">>, <<"M", "P">>} :
            \E k \in 1..MaxTeams :
              \E mins \in ScenarioMinimums :
                call = SubjectCall([i \in 1..ScenarioStudents |-> [ID |-> i, Materias |-> m[i]]],
                                   s, k, mins)
     \/ \E mins \in ScenarioMinimums : call = SubjectCall(UniformRoster, <<"M">>, 2, mins)
  /\ twin = NoTwin
  /\ args = Idle
  /\ pc = "start"
  /\ plan = Idle
  /\ teams = <<>>
  /\ commit = EmptyMap
  /\ assigned = {}
  /\ loop = Idle
  /\ result = NoResult

ScenarioNext ==
  \/ CallAllocateTeams
  \/ Phase1Pop
  \/ \E order \in TeamOrders : Phase1Try(order)
  \/ \E order \in TeamOrders : Phase2Try(order)
  \/ \E order \in TeamOrders : LocalSearchPass(order)
  \/ BalanceMinimumsPass
  \/ BalanceUpperLimitsPass
  \/ SynthesizeWarnings

ScenarioSpec == ScenarioInit /\ [][ScenarioNext]_vars

(***************************************************************************)
(* localSearch on its own: it is started on any placement of the roster    *)
(* into the teams in which no team holds two groups of a selected subject, *)
(* with the commitments assignStudent records for it; averageTeamSize is   *)
(* the roster's size divided by the number of teams.                       *)
(***************************************************************************)
SearchInit ==
  /\ \E n \in 1..MaxStudents :
       \E m \in [1..n -> EnrolmentLists] :
         \E place \in [1..n -> 1..MaxTeams] :
           \E s \in {<<"M">>, <<"M", "P">>} :
             \E mins \in ScenarioMinimums :
               LET roster == [i \in 1..n |-> [ID |-> i, Materias |-> m[i]]]
                   w == BuildWorld([teams |-> [i \in 1..MaxTeams |-> [id |-> i, students |-> <<>>]],
                                    commit |-> [i \in 1..MaxTeams |-> EmptyMap]],
                                   1, roster, place, s)
               IN /\ \A t \in 1..MaxTeams : \A k \in 1..Len(s) :
                       Cardinality(GroupsInUse(w.teams[t].students, s[k])) <= 1
                  /\ call = SubjectCall(roster, s, MaxTeams, mins)
                  /\ args = [allStudents |-> roster, selectedSubjects |-> s,
                             userRequestedNumberOfTeams |-> MaxTeams,
                             minMode |-> mins.minMode, globalMinStudents |-> mins.globalMin,
                             individualMinStudents |-> mins.individualMin]
                  /\ teams = w.teams
                  /\ commit = w.commit
                  /\ assigned = 1..n
                  /\ loop = [iterations |-> 0, overallImproved |-> FALSE, assignedCount |-> n]
  /\ pc = "localSearch"
  /\ plan = [effectiveNumberOfTeams |-> MaxTeams]
  /\ result = NoResult
  /\ twin = NoTwin

SearchNext == \E order \in TeamOrders : LocalSearchPass(order)

SearchSpec == SearchInit /\ [][SearchNext]_vars

(***************************************************************************)
(* allocateTeams called twice with the same arguments, for three requested *)
(* teams and rosters of Math students: the second call draws in            *)
(* localSearch the orders the first call drew there.                       *)
(***************************************************************************)
RerunInit ==
  /\ \E g \in [1..RerunStudents -> Groups] :
       \E mins \in ScenarioMinimums :
         call = SubjectCall([i \in 1..RerunStudents |->
                               [ID |-> i, Materias |-> <<[subject |-> "M", group |-> g[i]]>>]],
                            <<"M">>, RerunTeams, mins)
  /\ twin = [NoTwin EXCEPT !.stage = "firstRun"]
  /\ args = Idle
  /\ pc = "start"
  /\ plan = Idle
  /\ teams = <<>>
  /\ commit = EmptyMap
  /\ assigned = {}
  /\ loop = Idle
  /\ result = NoResult

\* The second call of allocateTeams with the arguments of the first.
CallAgain ==
  /\ pc = "done"
  /\ twin.stage = "firstRun"
  /\ twin' = [stage |-> "secondRun", log |-> twin.log, pos |-> 1, first |-> result,
              original |-> call]
  /\ pc' = "start"
  /\ args' = Idle
  /\ plan' = Idle
  /\ teams' = <<>>
  /\ commit' = EmptyMap
  /\ assigned' = {}
  /\ loop' = Idle
  /\ result' = NoResult
  /\ UNCHANGED call

\* The orders localSearch can draw: in the second call the one the first
\* call drew in the same pass.
SearchDraws ==
  IF twin.stage = "secondRun" /\ twin.pos <= Len(twin.log) /\ twin.log[twin.pos] \in TeamOrders
  THEN {twin.log[twin.pos]}
  ELSE TeamOrders

RerunNext ==
  \/ CallAllocateTeams
  \/ Phase1Pop
  \/ \E order \in TeamOrders : Phase1Try(order)
  \/ \E order \in TeamOrders : Phase2Try(order)
  \/ \E order \in SearchDraws : LocalSearchPass(order)
  \/ BalanceMinimumsPass
  \/ BalanceUpperLimitsPass
  \/ SynthesizeWarnings
  \/ CallAgain

RerunSpec == RerunInit /\ [][RerunNext]_vars

(***************************************************************************)
(* transformResultBackToRoles on its own: it is applied to any engine      *)
(* result of up to MaxTeams teams of virtual students and to any original  *)
(* roster, whether or not the roster holds the IDs of the result.          *)
(***************************************************************************)
\* The member lists of an engine team: virtual students with distinct IDs.
VirtualMembers ==
  UNION {{[k \in 1..n |-> [ID |-> ids[k],
                            Materias |-> <<[subject |-> "R1", group |-> "M A"]>>]] :
            ids \in {f \in [1..n -> 1..MaxStudents] : \A a, b \in 1..n : a # b => f[a] # f[b]}} :
         n \in 0..MaxRoleStudents}

\* The original rosters: up to MaxRoleStudents records.
OriginalRosters ==
  UNION {[1..n -> {[ID |-> id, Materias |-> m] :
                     id \in 1..MaxStudents,
                     m \in {<<[subject |-> "M", group |-> "A"]>>,
                            <<[subject |-> "M", group |-> "A"],
                              [subject |-> "P", group |-> "B"]>>}}] :
         n \in 0..MaxRoleStudents}

\* The warning lists of the engine result.
EngineWarnings ==
  {<<>>,
   <<Warning(0, "", "unassigned", TRUE, <<1>>)>>,
   <<Warning(1, "R1", "noStudentsForSubject", TRUE, <<1>>),
     Warning(1, "R2", "belowMinimum", FALSE, <<1, 2>>)>>}

BackInit ==
  /\ \E roster \in OriginalRosters :
       \E roles \in {<<Role("R1", <<"M">>, 1)>>,
                      <<Role("R1", <<"M">>, 1), Role("R2", <<"P">>, 1)>>} :
         call = RoleCall(roster, roles, MaxTeams,
                         [minMode |-> "global", globalMin |-> 1, individualMin |-> EmptyMap])
  /\ \E n \in 1..MaxTeams :
       \E members \in [1..n -> VirtualMembers] :
         teams = [t \in 1..n |-> [id |-> t, students |-> members[t]]]
  /\ \E ws \in EngineWarnings : loop = [at |-> "back", warnings |-> ws]
  /\ pc = "back"
  /\ args = Idle
  /\ plan = Idle
  /\ commit = EmptyMap
  /\ assigned = {}
  /\ result = NoResult
  /\ twin = NoTwin

\* Step 5 of allocateTeamsByRoles.
TransformBack ==
  /\ pc = "back"
  /\ result' = transformResultBackToRoles(teams, loop.warnings, call.selectedRoles,
                                          call.allStudents)
  /\ pc' = "done"
  /\ UNCHANGED <<call, args, plan, teams, commit, assigned, loop, twin>>

BackSpec == BackInit /\ [][TransformBack]_vars

(***************************************************************************)
(* manager.ts on its own: assignStudent and removeStudent called in any    *)
(* order on the teams of a request, assignStudent only after               *)
(* findGroupConflict has returned null for the student and the team.  The  *)
(* students and the selected subjects are the ones allocateTeams passes    *)
(* on: the roster and the subjects of a subject-mode request, or the       *)
(* virtual students and the virtual subjects of a role-mode request.       *)
(***************************************************************************)
ManagerInit ==
  /\ \/ \E n \in 1..MaxStudents :
          \E m \in [1..n -> EnrolmentLists] :
            \E s \in {<<"M">>, <<"M", "P">>} :
              LET roster == [i \in 1..n |-> [ID |-> i, Materias |-> m[i]]]
                  mins == [minMode |-> "global", globalMin |-> 1, individualMin |-> EmptyMap]
              IN /\ call = SubjectCall(roster, s, MaxTeams, mins)
                 /\ args = [allStudents |-> roster, selectedSubjects |-> s,
                            userRequestedNumberOfTeams |-> MaxTeams,
                            minMode |-> "global", globalMinStudents |-> 1,
                            individualMinStudents |-> EmptyMap]
     \/ \E n \in 1..MaxRoleStudents :
          \E m \in [1..n -> EnrolmentLists] :
            \E roles \in RoleLists :
              LET roster == [i \in 1..n |-> [ID |-> i, Materias |-> m[i]]]
                  mins == [minMode |-> "global", globalMin |-> 1, individualMin |-> EmptyMap]
              IN /\ call = RoleCall(roster, roles, MaxTeams, mins)
                 /\ args = [allStudents |-> transformRolesToVirtualSubjects(roster, roles),
                            selectedSubjects |-> getVirtualSubjectsFromMapping(roles),
                            userRequestedNumberOfTeams |-> MaxTeams,
                            minMode |-> "individual", globalMinStudents |-> 1,
                            individualMinStudents |->
                              transformRoleMinimums("global", 1, EmptyMap, roles)]
  /\ teams = [i \in 1..MaxTeams |-> [id |-> i, students |-> <<>>]]
  /\ commit = [i \in 1..MaxTeams |-> EmptyMap]
  /\ pc = "manager"
  /\ plan = Idle
  /\ assigned = {}
  /\ loop = Idle
  /\ result = NoResult
  /\ twin = NoTwin

\* findGroupConflict(student, team, ...) returns null and assignStudent is called.
ManagerAssign ==
  /\ pc = "manager"
  /\ \E i \in 1..Len(args.allStudents) :
       \E teamId \in 1..Len(teams) :
         /\ findGroupConflict(args.allStudents[i], TeamById(teams, teamId), commit) = NoConflict
         /\ \E w \in {assignStudent(World, args.allStudents[i], teamId, args.selectedSubjects)} :
              /\ teams' = w.teams
              /\ commit' = w.commit
  /\ UNCHANGED <<call, args, pc, plan, assigned, loop, result, twin>>

\* removeStudent(student, team, ...) is called.
ManagerRemove ==
  /\ pc = "manager"
  /\ \E i \in 1..Len(args.allStudents) :
       \E teamId \in 1..Len(teams) :
         \E w \in {removeStudent(World, args.allStudents[i], teamId, args.selectedSubjects)} :
           /\ teams' = w.teams
           /\ commit' = w.commit
  /\ UNCHANGED <<call, args, pc, plan, assigned, loop, result, twin>>

ManagerNext ==
  \/ ManagerAssign
  \/ ManagerRemove

ManagerSpec == ManagerInit /\ [][ManagerNext]_vars

(***************************************************************************)
(* Properties.                                                             *)
(***************************************************************************)
\* The configured minimum of a subject under the arguments a of allocateTeams.
ArgMin(a, subject) ==
  getConfiguredSubjectMinimum(subject, a.minMode, a.globalMinStudents, a.individualMinStudents)

ArgCount(a, subject) == Len(getStudentsForSubject(subject, a.allStudents))

\* Every team holds at most one group of every subject of the list.
GroupConsistent(ts, subjects) ==
  \A t \in 1..Len(ts) :
    \A i \in 1..Len(subjects) : Cardinality(GroupsInUse(ts[t].students, subjects[i])) <= 1

\* C1: in subject mode, in every state of the run (hence after Phase 1,
\* Phase 2, localSearch and finalBalancing) and in the returned result, all
\* members of a team enrolled in a selected subject hold the same group.
C1_GroupConsistency ==
  call.mode = "subject"
    => /\ GroupConsistent(teams, call.selectedSubjects)
       /\ GroupConsistent(result.teams, call.selectedSubjects)

\* A returned team with two members of a selected subject, from a roster that
\* holds both groups of that subject.
C1_Witness ==
  /\ pc = "done"
  /\ call.mode = "subject"
  /\ \E t \in 1..Len(result.teams) :
       \E i \in 1..Len(call.selectedSubjects) :
         /\ countStudentsWithSubject(result.teams[t], call.selectedSubjects[i]) >= 2
         /\ Cardinality(GroupsInUse(call.allStudents, call.selectedSubjects[i])) = 2

\* C2: allocateTeams returns after finitely many steps: every run that keeps
\* taking steps reaches the return.
C2_Terminates == <>(pc = "done")

\* C3: when a selected criterion has 0 < students < minimum, the plan is zero
\* teams and allocateTeams returns no teams and exactly one warning, the
\* planner's critical warning, which names a selected criterion that has
\* fewer students than its minimum.
C3_InfeasibleCriterion ==
  ( /\ pc = "done"
    /\ call.mode = "subject"
    /\ \E i \in 1..Len(args.selectedSubjects) :
         /\ 0 < ArgCount(args, args.selectedSubjects[i])
         /\ ArgCount(args, args.selectedSubjects[i]) < ArgMin(args, args.selectedSubjects[i]) )
    => /\ plan.effectiveNumberOfTeams = 0
       /\ result.teams = <<>>
       /\ Len(result.warnings) = 1
       /\ result.warnings[1].isCritical
       /\ result.warnings[1].info =
            determineOrderAllocation(args.allStudents, args.selectedSubjects,
                                     args.userRequestedNumberOfTeams, args.minMode,
                                     args.globalMinStudents,
                                     args.individualMinStudents).criticalWarning
       /\ result.warnings[1].info.kind \in {"noStudentsInSubject", "notEnoughStudents"}
       /\ Includes(args.selectedSubjects, result.warnings[1].info.subject)
       /\ ArgCount(args, result.warnings[1].info.subject)
            < ArgMin(args, result.warnings[1].info.subject)

\* A returned call for two criteria and two teams, the second criterion short
\* of its minimum and the first one not.
C3_Witness ==
  /\ pc = "done"
  /\ call.mode = "subject"
  /\ Len(args.selectedSubjects) = 2
  /\ args.userRequestedNumberOfTeams = 2
  /\ ArgCount(args, args.selectedSubjects[1]) >= ArgMin(args, args.selectedSubjects[1])
  /\ 0 < ArgCount(args, args.selectedSubjects[2])
  /\ ArgCount(args, args.selectedSubjects[2]) < ArgMin(args, args.selectedSubjects[2])

\* C4: for zero students, zero selected criteria or a requested team count
\* <= 0, allocateTeams does not throw and returns no teams and exactly one
\* warning, which is critical.
C4_DegenerateInput ==
  ( /\ pc = "done"
    /\ call.mode = "subject"
    /\ \/ Len(call.allStudents) = 0
       \/ Len(call.selectedSubjects) = 0
       \/ call.userRequestedNumberOfTeams <= 0 )
    => /\ ~result.thrown
       /\ result.teams = <<>>
       /\ Len(result.warnings) = 1
       /\ result.warnings[1].isCritical

\* A returned call with a requested team count <= 0 for a roster and a
\* criterion that would allow a team.
C4_Witness ==
  /\ pc = "done"
  /\ call.mode = "subject"
  /\ call.userRequestedNumberOfTeams <= 0
  /\ Len(call.selectedSubjects) > 0
  /\ \A i \in 1..Len(args.selectedSubjects) :
       ArgCount(args, args.selectedSubjects[i]) >= ArgMin(args, args.selectedSubjects[i])
  /\ Len(result.warnings) = 1

RECURSIVE FloorBound(_, _, _)
\* min over the criteria from index k on of floor(students / minimum), and acc.
FloorBound(a, k, acc) ==
  IF k > Len(a.selectedSubjects) THEN acc
  ELSE FloorBound(a, k + 1,
                  Min(acc, ArgCount(a, a.selectedSubjects[k])
                           \div ArgMin(a, a.selectedSubjects[k])))

\* No criterion is infeasible: each has at least its minimum of students.
AllFeasible(a) ==
  \A i \in 1..Len(a.selectedSubjects) :
    ArgCount(a, a.selectedSubjects[i]) >= ArgMin(a, a.selectedSubjects[i])

\* The equation of C5 for the plan of the current call.
PlanIsTheMinimum ==
  /\ plan.effectiveNumberOfTeams
       = FloorBound(args, 1, args.userRequestedNumberOfTeams)
  /\ plan.effectiveNumberOfTeams <= args.userRequestedNumberOfTeams
  /\ \A i \in 1..Len(args.selectedSubjects) :
       plan.effectiveNumberOfTeams * ArgMin(args, args.selectedSubjects[i])
         <= ArgCount(args, args.selectedSubjects[i])

\* C5 as stated: when the requested count is >= 1 and no criterion is
\* infeasible, effectiveNumberOfTeams is the minimum of the requested count and
\* of floor(students / minimum) over the selected criteria.
C5_AsStated ==
  (pc # "start" /\ args.userRequestedNumberOfTeams >= 1 /\ AllFeasible(args))
    => PlanIsTheMinimum

\* C5 amended: the same, when at least one criterion is selected.
C5_EffectiveTeams ==
  ( /\ pc # "start"
    /\ args.userRequestedNumberOfTeams >= 1
    /\ Len(args.selectedSubjects) >= 1
    /\ AllFeasible(args) )
    => PlanIsTheMinimum

\* A plan of one team for two requested ones, bounded by a criterion whose
\* students do not divide evenly by its minimum.
C5_Witness ==
  /\ pc # "start"
  /\ args.userRequestedNumberOfTeams = 2
  /\ Len(args.selectedSubjects) = 2
  /\ AllFeasible(args)
  /\ plan.effectiveNumberOfTeams = 1
  /\ \E i \in 1..Len(args.selectedSubjects) :
       /\ ArgCount(args, args.selectedSubjects[i]) = 3
       /\ ArgMin(args, args.selectedSubjects[i]) = 2

\* How often the student with the given ID occurs in the teams.
Occurrences(ts, id) ==
  Cardinality({<<t, k>> \in (1..Len(ts)) \X (1..MaxStudents + 1) :
                 k <= Len(ts[t].students) /\ ts[t].students[k].ID = id})

\* The IDs a critical "unassigned students" warning of the result counts.
ReportedUnassigned ==
  UNION {SeqToSet(result.warnings[i].info) :
           i \in {j \in 1..Len(result.warnings) :
                    result.warnings[j].kind = "unassigned" /\ result.warnings[j].isCritical}}

\* C6: in the result of allocateTeams, when teams were created, every student
\* of the roster occurs at most once in the returned teams, and is reported in
\* a critical unassigned-students warning exactly when in no returned team.
C6_EveryStudentAccounted ==
  (pc = "done" /\ call.mode = "subject" /\ plan.effectiveNumberOfTeams > 0)
    => \A i \in 1..Len(call.allStudents) :
         /\ Occurrences(result.teams, call.allStudents[i].ID) <= 1
         /\ (Occurrences(result.teams, call.allStudents[i].ID) = 0)
              <=> (call.allStudents[i].ID \in ReportedUnassigned)

\* A result with a student in a team, a student reported unassigned, and a
\* student that a conflict resolution or a balancing pass has moved.
C6_Witness ==
  /\ pc = "done"
  /\ call.mode = "subject"
  /\ Len(result.teams) = 2
  /\ ReportedUnassigned # {}
  /\ \E t \in 1..Len(result.teams) : Len(result.teams[t].students) > 0

\* The teams of the list that meet the minimum of every selected criterion.
TeamsMeetingMinimums(ts) ==
  {t \in 1..Len(ts) :
     \A i \in 1..Len(Cfg.selectedSubjects) :
       countStudentsWithSubject(ts[t], Cfg.selectedSubjects[i])
         >= MinOf(Cfg.selectedSubjects[i], Cfg.mins)}

\* No team that has the minimum of a selected criterion in `before` is below
\* it in `after`.
NoMinimumBroken(before, after) ==
  \A t \in 1..Len(before) :
    \A i \in 1..Len(Cfg.selectedSubjects) :
      countStudentsWithSubject(before[t], Cfg.selectedSubjects[i])
          >= MinOf(Cfg.selectedSubjects[i], Cfg.mins)
        => countStudentsWithSubject(after[t], Cfg.selectedSubjects[i])
             >= MinOf(Cfg.selectedSubjects[i], Cfg.mins)

\* The teams before the last pass followed by the teams after each of its moves.
LastPassStates == <<loop.before>> \o loop.trace

\* C7: finalBalancing never reduces the number of teams that meet every
\* minimum, and no single move of its passes takes a team from at or above
\* the minimum of a selected criterion to below it.
C7_NoRegression ==
  pc \in {"balanceMin", "balanceUpper", "warnings"}
    => /\ Cardinality(TeamsMeetingMinimums(teams))
            >= Cardinality(TeamsMeetingMinimums(loop.startTeams))
       /\ \A k \in 1..(Len(LastPassStates) - 1) :
            NoMinimumBroken(LastPassStates[k], LastPassStates[k + 1])

\* A pass that has moved a student out of a team that met a minimum, for two
\* selected criteria.
C7_Witness ==
  /\ pc \in {"balanceMin", "balanceUpper", "warnings"}
  /\ loop.trace # <<>>
  /\ Len(Cfg.selectedSubjects) = 2
  /\ TeamsMeetingMinimums(loop.startTeams) # {}

\* The virtual groups the members hold for a role.
RoleGroupsInUse(members, role) ==
  UNION {{VirtualGroup(m.Materias[j]) :
            j \in {k \in 1..Len(m.Materias) : Includes(role.subjects, m.Materias[k].subject)}} :
         m \in SeqToSet(members)}

\* C8: in role mode, in every returned team and for every selected role, the
\* members who qualify for the role hold one and the same virtual group.
C8_RoleGroupConsistency ==
  (pc = "done" /\ call.mode = "role")
    => \A t \in 1..Len(result.teams) :
         \A r \in 1..Len(call.selectedRoles) :
           Cardinality(RoleGroupsInUse(result.teams[t].students, call.selectedRoles[r])) <= 1

\* The warnings agree in number, team and criticality.
SameWarnings(a, b) ==
  /\ Len(a) = Len(b)
  /\ \A i \in 1..Len(a) : a[i].team = b[i].team /\ a[i].isCritical = b[i].isCritical

\* The teams agree in ids and in the student IDs of each team.
SameTeams(a, b) ==
  /\ Len(a) = Len(b)
  /\ \A i \in 1..Len(a) :
       /\ a[i].id = b[i].id
       /\ {a[i].students[k].ID : k \in 1..Len(a[i].students)}
            = {b[i].students[k].ID : k \in 1..Len(b[i].students)}

\* C9: for a single role over one subject and a roster enrolled in that
\* subject only, allocateTeamsByRoles and allocateTeams on that subject with
\* the role's minimum return, for the same random orders, the same teams and
\* warnings of the same number, team and criticality.
C9_SameAsSubjectMode ==
  (pc = "done" /\ twin.stage = "second")
    => /\ SameTeams(twin.first.teams, result.teams)
       /\ SameWarnings(twin.first.warnings, result.warnings)

\* C10: for every selected role, the minimum the engine enforces in role mode
\* (the configured minimum of the role's virtual subject) is the role's
\* configured minimum as getConfiguredRoleMinimum computes it.
C10_RoleMinimum ==
  (call.mode = "role" /\ pc # "start")
    => \A r \in 1..Len(call.selectedRoles) :
         ArgMin(args, call.selectedRoles[r].id)
           = getConfiguredRoleMinimum(call.selectedRoles[r], call.minMode, call.globalMin,
                                      call.individualMin)

\* The roles of the call whose subject sets share a subject with another
\* selected role.
OverlappingRoles ==
  {r \in 1..Len(call.selectedRoles) :
     \E q \in 1..Len(call.selectedRoles) :
       /\ q # r
       /\ \E i \in 1..Len(call.selectedRoles[r].subjects) :
            Includes(call.selectedRoles[q].subjects, call.selectedRoles[r].subjects[i])}

WarningsFor(teamId, subject, critical) ==
  {i \in 1..Len(result.warnings) :
     /\ result.warnings[i].team = teamId
     /\ result.warnings[i].subject = subject
     /\ result.warnings[i].isCritical = critical}

\* The warnings of the result about the minimum of a criterion in a team.
MinimumWarningsFor(teamId, subject) ==
  {i \in 1..Len(result.warnings) :
     /\ result.warnings[i].team = teamId
     /\ result.warnings[i].subject = subject
     /\ result.warnings[i].kind \in {"noStudentsForSubject", "belowMinimum"}}

\* C14: for every returned team and selected criterion, a team with no
\* qualifying member gets exactly one critical warning for the pair, which
\* is about the missing minimum; a team with at least one but fewer than the
\* configured minimum gets exactly one non-critical warning for the pair; a
\* team with at least the minimum gets no minimum warning for the pair.
C14_MinimumWarnings ==
  (pc = "done" /\ call.mode = "subject")
    => \A t \in 1..Len(result.teams) :
         \A s \in 1..Len(call.selectedSubjects) :
           LET id == result.teams[t].id
               subject == call.selectedSubjects[s]
               count == countStudentsWithSubject(result.teams[t], subject)
               configuredMin == ArgMin(args, subject)
           IN /\ count = 0
                   => /\ Cardinality(WarningsFor(id, subject, TRUE)) = 1
                      /\ WarningsFor(id, subject, TRUE) \subseteq MinimumWarningsFor(id, subject)
                      /\ WarningsFor(id, subject, FALSE) = {}
              /\ (0 < count /\ count < configuredMin)
                   => /\ Cardinality(WarningsFor(id, subject, FALSE)) = 1
                      /\ MinimumWarningsFor(id, subject) = WarningsFor(id, subject, FALSE)
              /\ count >= configuredMin => MinimumWarningsFor(id, subject) = {}

\* A result with a team that has no member for one criterion and one with
\* fewer members than the minimum of a criterion.
C14_Witness ==
  /\ pc = "done"
  /\ call.mode = "subject"
  /\ \E t \in 1..Len(result.teams) :
       \E s \in 1..Len(call.selectedSubjects) :
         countStudentsWithSubject(result.teams[t], call.selectedSubjects[s]) = 0
  /\ \E t \in 1..Len(result.teams) :
       \E s \in 1..Len(call.selectedSubjects) :
         /\ countStudentsWithSubject(result.teams[t], call.selectedSubjects[s]) > 0
         /\ countStudentsWithSubject(result.teams[t], call.selectedSubjects[s])
              < ArgMin(args, call.selectedSubjects[s])

\* The sort key of a warning's team: team-less warnings after every team.
TeamKey(warning) == IF warning.team = 0 THEN MaxTeams + 1 ELSE warning.team

\* C15: the returned warnings are sorted: a critical warning precedes every
\* non-critical one; with equal criticality the team ids ascend, team-less
\* warnings last; with equal criticality and team the criterion names ascend.
C15_WarningsSorted ==
  (pc = "done" /\ call.mode = "subject")
    => \A i, j \in 1..Len(result.warnings) :
         i < j =>
           LET a == result.warnings[i]
               b == result.warnings[j]
           IN /\ b.isCritical => a.isCritical
              /\ a.isCritical = b.isCritical => TeamKey(a) <= TeamKey(b)
              /\ (a.isCritical = b.isCritical /\ TeamKey(a) = TeamKey(b))
                   => NameRank(a.subject) <= NameRank(b.subject)

\* A result whose warnings were pushed in another order than the returned
\* one: a team-less critical warning, a critical warning of a team and a
\* non-critical one.
C15_Witness ==
  /\ pc = "done"
  /\ call.mode = "subject"
  /\ \E i, j, k \in 1..Len(result.warnings) :
       /\ i < j /\ j < k
       /\ result.warnings[i].isCritical /\ result.warnings[i].team # 0
       /\ result.warnings[j].isCritical /\ result.warnings[j].team = 0
       /\ ~result.warnings[k].isCritical

\* C16: whenever allocateTeams returns at least one team but fewer teams
\* than the requested count, the returned warnings include a non-critical
\* warning that fewer teams were formed than requested.
C16_FewerTeamsWarned ==
  ( /\ pc = "done"
    /\ call.mode = "subject"
    /\ Len(result.teams) >= 1
    /\ Len(result.teams) < call.userRequestedNumberOfTeams )
    => \E i \in 1..Len(result.warnings) :
         /\ result.warnings[i].kind = "fewerTeams"
         /\ ~result.warnings[i].isCritical

\* C17: every returned team contains at least the configured
\* minimum of students for every selected subject.
C17_EveryTeamMeetsMinimums ==
  (pc = "done" /\ call.mode = "subject")
    => \A t \in 1..Len(result.teams) :
         \A s \in 1..Len(call.selectedSubjects) :
           countStudentsWithSubject(result.teams[t], call.selectedSubjects[s])
             >= ArgMin(args, call.selectedSubjects[s])

\* The group-conflict warnings of the result for a subject: critical
\* warnings of a team about conflicting groups of the subject.
GroupConflictWarnings(subject) ==
  {i \in 1..Len(result.warnings) :
     /\ result.warnings[i].kind = "groupConflict"
     /\ result.warnings[i].subject = subject
     /\ result.warnings[i].isCritical}

\* The teams of the list that hold more than one group of a selected subject.
TeamsInConflict(ts) ==
  {t \in 1..Len(ts) :
     \E s \in 1..Len(call.selectedSubjects) :
       Cardinality(GroupsInUse(ts[t].students, call.selectedSubjects[s])) > 1}

\* The call is the one of six students of Math group A, two requested teams
\* and minimum 2.
UniformCall ==
  /\ call.allStudents = UniformRoster
  /\ call.selectedSubjects = <<"M">>
  /\ call.userRequestedNumberOfTeams = 2
  /\ ArgMin([minMode |-> call.minMode, globalMinStudents |-> call.globalMin,
             individualMinStudents |-> call.individualMin], "M") = 2

\* C12: for six students of Math group A, two requested teams and minimum
\* 2, allocateTeams returns exactly two teams of three students each, no
\* team with a group conflict and no critical warning, whatever the random
\* orders were.
C12_TwoTeamsOfThree ==
  (pc = "done" /\ UniformCall)
    => /\ Len(result.teams) = 2
       /\ \A t \in 1..Len(result.teams) : Len(result.teams[t].students) = 3
       /\ TeamsInConflict(result.teams) = {}
       /\ \A i \in 1..Len(result.warnings) : ~result.warnings[i].isCritical

\* The call of six students of Math group A has returned with every
\* student in a team.
C12_Witness ==
  /\ pc = "done"
  /\ UniformCall
  /\ \A i \in 1..Len(call.allStudents) : Occurrences(result.teams, call.allStudents[i].ID) = 1

\* The call is one of four students of Math only, two in group A and two in
\* group B, one requested team and minimum 2.
SplitCall ==
  /\ Len(call.allStudents) = 4
  /\ \A i \in 1..Len(call.allStudents) :
       /\ Len(call.allStudents[i].Materias) = 1
       /\ call.allStudents[i].Materias[1].subject = "M"
  /\ \A g \in Groups :
       Cardinality({i \in 1..Len(call.allStudents) :
                      call.allStudents[i].Materias[1].group = g}) = 2
  /\ call.selectedSubjects = <<"M">>
  /\ call.userRequestedNumberOfTeams = 1
  /\ ArgMin([minMode |-> call.minMode, globalMinStudents |-> call.globalMin,
             individualMinStudents |-> call.individualMin], "M") = 2

\* C13: for four students split 2/2 across Math group A and Math group B,
\* one requested team and minimum 2, the returned warnings contain a
\* critical group-conflict warning for Math, and a student is left out of
\* the returned teams only if the warnings contain a critical one.
C13_SplitGroupsReported ==
  (pc = "done" /\ SplitCall)
    => /\ GroupConflictWarnings("M") # {}
       /\ (\E i \in 1..Len(call.allStudents) :
             Occurrences(result.teams, call.allStudents[i].ID) = 0)
            => \E i \in 1..Len(result.warnings) : result.warnings[i].isCritical

\* The enrolments of the members of a team in a subject.
MemberEntries(team, subject) ==
  UNION {{m.Materias[j] : j \in {k \in 1..Len(m.Materias) : m.Materias[k].subject = subject}} :
         m \in SeqToSet(team.students)}

\* C18: after any sequence of assignStudent and removeStudent calls in which
\* every assignStudent follows a findGroupConflict check that found no
\* conflict, for every team and every selected subject a commitment exists
\* exactly if a current member is enrolled in the subject, and the committed
\* group is the group every such member holds for it.
C18_CommitmentMatchesMembers ==
  pc = "manager"
    => \A t \in 1..Len(teams) :
         \A s \in 1..Len(args.selectedSubjects) :
           LET subject == args.selectedSubjects[s]
               teamCommitments == commit[teams[t].id]
           IN /\ subject \in DOMAIN teamCommitments <=> MemberEntries(teams[t], subject) # {}
              /\ \A sg \in MemberEntries(teams[t], subject) :
                   /\ subject \in DOMAIN teamCommitments
                   /\ teamCommitments[subject] = sg.group

\* The IDs of the members of a team.
MemberIDs(team) == {team.students[k].ID : k \in 1..Len(team.students)}

\* C19: two runs of allocateTeams on the same arguments in which localSearch
\* draws the same team order in every pass return the same teams (the same
\* ids with the same members) and the same warnings.
C19_SameOrdersSameResult ==
  (pc = "done" /\ twin.stage = "secondRun" /\ twin.pos = Len(twin.log) + 1)
    => /\ Len(result.teams) = Len(twin.first.teams)
       /\ \A t \in 1..Len(result.teams) :
            /\ result.teams[t].id = twin.first.teams[t].id
            /\ MemberIDs(result.teams[t]) = MemberIDs(twin.first.teams[t])
       /\ result.warnings = twin.first.warnings

\* A member of the engine's teams has an ID no record of the original
\* roster has.
MemberMissing ==
  \E t \in 1..Len(teams) :
    \E k \in 1..Len(teams[t].students) :
      \A i \in 1..Len(call.allStudents) : call.allStudents[i].ID # teams[t].students[k].ID

\* C20: transformResultBackToRoles returns teams with the ids of the engine
\* result and, for each team, the same student IDs in the same order, each
\* member being the original Student record with that ID; if the ID of a
\* member is absent from the original roster it throws and returns no teams
\* and no warnings.
C20_BackToOriginalStudents ==
  pc = "done"
    => IF MemberMissing
       THEN /\ result.thrown
            /\ result.teams = <<>>
            /\ result.warnings = <<>>
       ELSE /\ ~result.thrown
            /\ Len(result.teams) = Len(teams)
            /\ \A t \in 1..Len(teams) :
                 /\ result.teams[t].id = teams[t].id
                 /\ Len(result.teams[t].students) = Len(teams[t].students)
                 /\ \A k \in 1..Len(teams[t].students) :
                      /\ result.teams[t].students[k].ID = teams[t].students[k].ID
                      /\ \E i \in 1..Len(call.allStudents) :
                           call.allStudents[i] = result.teams[t].students[k]

\* The function has thrown for an engine result with a member of the
\* roster in one team and a member absent from the roster in another.
C20_Witness ==
  /\ pc = "done"
  /\ result.thrown
  /\ Len(teams) = 2
  /\ \E k \in 1..Len(teams[1].students) :
       \E i \in 1..Len(call.allStudents) : call.allStudents[i].ID = teams[1].students[k].ID
  /\ \E k \in 1..Len(teams[2].students) :
       \A i \in 1..Len(call.allStudents) : call.allStudents[i].ID # teams[2].students[k].ID

\* The student is a member of the team.
IsMember(team, id) == \E k \in 1..Len(team.students) : team.students[k].ID = id

\* The last pass was one of moveStudentsToMeetMinimums.
AfterMinimumsPass ==
  /\ pc \in {"balanceMin", "balanceUpper"}
  /\ loop.passCount >= 1
  /\ loop.upperPassCount = 0

\* C21: a move of moveStudentsToMeetMinimums takes a student, for a selected
\* criterion the student holds, from a team with more than the configured
\* minimum of members for it into a team with fewer than the minimum before
\* the move.
C21_SurplusToDeficit ==
  AfterMinimumsPass
    => \A k \in 1..(Len(LastPassStates) - 1) :
         \A i \in 1..Len(args.allStudents) :
           \A from, to \in 1..Len(teams) :
             ( /\ from # to
               /\ IsMember(LastPassStates[k][from], args.allStudents[i].ID)
               /\ IsMember(LastPassStates[k + 1][to], args.allStudents[i].ID) )
               => \E s \in 1..Len(Cfg.selectedSubjects) :
                    LET subject == Cfg.selectedSubjects[s]
                    IN /\ HasSubject(args.allStudents[i], subject)
                       /\ countStudentsWithSubject(LastPassStates[k][from], subject)
                            > MinOf(subject, Cfg.mins)
                       /\ countStudentsWithSubject(LastPassStates[k][to], subject)
                            < MinOf(subject, Cfg.mins)

\* The members of every team of the list, by position.
Membership(ts) == [t \in 1..Len(ts) |-> {ts[t].students[k].ID : k \in 1..Len(ts[t].students)}]

\* C22: the minimum-seeking loop of finalBalancing ends with a pass that
\* made no move, and so does the upper-limit loop, rather than at their pass
\* caps; and no move restores a membership the teams had earlier.
C22_BalancingSettles ==
  /\ (pc = "balanceUpper" /\ loop.passCount >= 1 /\ loop.upperPassCount = 0)
       => loop.trace = <<>>
  /\ (pc = "warnings" /\ loop.upperPassCount >= 1) => loop.trace = <<>>
  /\ pc \in {"balanceMin", "balanceUpper", "warnings"}
       => \A j, k \in 1..Len(LastPassStates) :
            j < k => Membership(LastPassStates[j]) # Membership(LastPassStates[k])
\* The source team of a move of the role balancing, before and after it.
SourceBefore(move) == TeamById(move.before.teams, move.from)

SourceAfter(move) == TeamById(move.after.teams, move.from)

\* C23: no move of finalBalancingForRoles leaves the source team with fewer
\* members than the configured minimum for the role being balanced, or for
\* any other selected role the moved student fulfils, when the source team
\* met that minimum before the move.
C23_SourceKeepsRoleMinimums ==
  pc \in {"roleBalanceMin", "roleBalanceUpper", "roleBalanced"}
    => \A k \in 1..Len(loop.trace) :
         \A r \in 1..Len(args.selectedRoles) :
           ( /\ \/ args.selectedRoles[r].id = loop.trace[k].role.id
                \/ canStudentFulfillRole(loop.trace[k].student, args.selectedRoles[r])
             /\ countStudentsWithRole(SourceBefore(loop.trace[k]), args.selectedRoles[r])
                  >= RoleMinOf(args.selectedRoles[r], RoleCfg.mins) )
             => countStudentsWithRole(SourceAfter(loop.trace[k]), args.selectedRoles[r])
                  >= RoleMinOf(args.selectedRoles[r], RoleCfg.mins)


\* The destination team of a move of the role balancing, before and after it.
DestinationBefore(move) == TeamById(move.before.teams, move.to)

DestinationAfter(move) == TeamById(move.after.teams, move.to)

\* C24: no move of finalBalancingForRoles creates a group conflict in the
\* destination team: after the move, for every selected role, the members of
\* the destination who fulfil the role hold one group if they did before the
\* move, and the destination's commitment for the role being balanced is the
\* group its members hold for that role.
C24_NoRoleGroupConflict ==
  pc \in {"roleBalanceMin", "roleBalanceUpper", "roleBalanced"}
    => \A k \in 1..Len(loop.trace) :
         /\ \A r \in 1..Len(args.selectedRoles) :
              Cardinality(getGroupsForRoleInTeam(DestinationBefore(loop.trace[k]),
                                                 args.selectedRoles[r])) <= 1
                => Cardinality(getGroupsForRoleInTeam(DestinationAfter(loop.trace[k]),
                                                      args.selectedRoles[r])) <= 1
         /\ Cardinality(getGroupsForRoleInTeam(DestinationBefore(loop.trace[k]),
                                               loop.trace[k].role)) <= 1
              => /\ loop.trace[k].to \in DOMAIN loop.trace[k].after.commit
                 /\ loop.trace[k].role.id \in DOMAIN loop.trace[k].after.commit[loop.trace[k].to]
                 /\ getGroupsForRoleInTeam(DestinationAfter(loop.trace[k]), loop.trace[k].role)
                      = {loop.trace[k].after.commit[loop.trace[k].to][loop.trace[k].role.id]}


\* The student at position a of team i and the student at position b of team
\* j are a pair localSearch scores: both may move to the other's team.
ScoredPair(i, a, j, b) ==
  /\ i # j
  /\ a <= Len(teams[i].students)
  /\ b <= Len(teams[j].students)
  /\ CanMoveTo(teams[i].students[a], teams[j], commit, Cfg)
  /\ CanMoveTo(teams[j].students[b], teams[i], commit, Cfg)

\* The term the score of a student leaving `team` gets for the source side
\* of a subject, and the term the score of a student joining `team` gets for
\* the target side, each from the counts calculateMoveScore is given.
SourceTerm(team, subject) ==
  SubjectTerms(MinOf(subject, Cfg.mins), UpperOf(subject, Cfg.mins),
               countStudentsWithSubject(team, subject),
               countStudentsWithSubject(team, subject) - 1,
               MinOf(subject, Cfg.mins), MinOf(subject, Cfg.mins))

TargetTerm(team, subject) ==
  SubjectTerms(MinOf(subject, Cfg.mins), UpperOf(subject, Cfg.mins), 0, 0,
               countStudentsWithSubject(team, subject),
               countStudentsWithSubject(team, subject) + 1)

\* C25: in localSearch the score of a student S of a scored pair holds the
\* +10 of a selected subject of S exactly when S's team, counted with S in
\* it, is at or above the subject's minimum and is below it once S has left;
\* and it holds the -10 exactly when the count of the other team is below
\* the minimum before the swap and at or above it after the swap.
C25_ScoreOnActualTeams ==
  pc = "localSearch"
    => \A i, j \in 1..Len(teams) : \A a, b \in 1..Len(args.allStudents) :
         ScoredPair(i, a, j, b)
           => \A k \in 1..Len(Cfg.selectedSubjects) :
                HasSubject(teams[i].students[a], Cfg.selectedSubjects[k])
                  => /\ (SourceTerm(TempTeam(teams[i], teams[i].students[a]),
                                    Cfg.selectedSubjects[k]) = 10)
                          <=> ( /\ countStudentsWithSubject(teams[i], Cfg.selectedSubjects[k])
                                     >= MinOf(Cfg.selectedSubjects[k], Cfg.mins)
                                /\ countStudentsWithSubject(teams[i], Cfg.selectedSubjects[k]) - 1
                                     < MinOf(Cfg.selectedSubjects[k], Cfg.mins) )
                     /\ (TargetTerm(teams[j], Cfg.selectedSubjects[k]) = -10)
                          <=> ( /\ countStudentsWithSubject(teams[j], Cfg.selectedSubjects[k])
                                     < MinOf(Cfg.selectedSubjects[k], Cfg.mins)
                                /\ countStudentsWithSubject(
                                     TempTeam(teams[j], teams[j].students[b]),
                                     Cfg.selectedSubjects[k]) + 1
                                     >= MinOf(Cfg.selectedSubjects[k], Cfg.mins) )


\* The students a step takes out of the team they are a member of.
SwappedStudents ==
  {id \in assigned : \E t \in 1..Len(teams) :
                       id \in Membership(teams)[t] /\ id \notin Membership(teams')[t]}

\* C26: localSearch runs a pass only while fewer than maxIterations (50)
\* passes have run; a pass accepts no swap or one swap of two students; the
\* search goes on to another pass exactly when the pass accepted a swap and
\* the limit is not reached, so it stops at the first pass without a swap;
\* and the value it returns is true exactly when a pass accepted a swap.
C26_SearchPasses ==
  /\ [](pc = "localSearch" /\ loop.iterations = 0 => ~loop.overallImproved)
  /\ [][pc = "localSearch"
          => /\ loop.iterations < DefaultMaxIterations
             /\ Cardinality(SwappedStudents) \in {0, 2}
             /\ (pc' = "localSearch")
                  <=> (SwappedStudents # {} /\ loop.iterations + 1 < DefaultMaxIterations)
             /\ pc' = "localSearch"
                  => /\ loop'.iterations = loop.iterations + 1
                     /\ loop'.overallImproved
             /\ pc' # "localSearch"
                  => /\ loop'.searched.iterations = loop.iterations + 1
                     /\ loop'.searched.overallImproved
                          <=> (loop.overallImproved \/ SwappedStudents # {})]_vars

\* localSearch has returned true after maxIterations passes.
C26_Witness ==
  /\ pc = "balanceMin"
  /\ loop.searched.iterations = DefaultMaxIterations
  /\ loop.searched.overallImproved

\* The teams whose members a step changes.
ChangedTeams == {t \in 1..Len(teams) : Membership(teams')[t] # Membership(teams)[t]}

\* C27: a pass of localSearch only exchanges students: every team keeps its
\* number of members, the set of assigned students is unchanged, and an
\* accepted swap changes exactly two teams, each of which loses one member
\* and gains one.
C27_SearchOnlyExchanges ==
  [][pc = "localSearch"
       => /\ \A t \in 1..Len(teams) : Len(teams'[t].students) = Len(teams[t].students)
          /\ assigned' = assigned
          /\ UNION {Membership(teams')[t] : t \in 1..Len(teams)}
               = UNION {Membership(teams)[t] : t \in 1..Len(teams)}
          /\ ChangedTeams # {}
               => /\ Cardinality(ChangedTeams) = 2
                  /\ \A t \in ChangedTeams :
                       /\ Cardinality(Membership(teams)[t] \ Membership(teams')[t]) = 1
                       /\ Cardinality(Membership(teams')[t] \ Membership(teams)[t]) = 1]_vars

\* localSearch has accepted a swap and goes on to its second pass.
C27_Witness ==
  /\ pc = "localSearch"
  /\ loop.iterations = 1
  /\ loop.overallImproved
  /\ \A t \in 1..Len(teams) : teams[t].students # <<>>


\* The students whose team after tryResolveConflict is not their team before.
Relocated ==
  {id \in assigned : \E t \in 1..Len(teams) :
                       id \in Membership(loop.before.teams)[t] /\ id \notin Membership(teams)[t]}

\* C28: when tryResolveConflict returns false, no membership and no
\* commitment has changed; when it returns true, exactly one student has
\* changed team: a member of targetTeam who holds the conflicting group for
\* the conflicting subject, now a member of one other team, for which
\* findGroupConflict reported no conflict for that student; every other
\* student is a member of the team they were in.
C28_ResolveFrame ==
  pc = "resolved"
    => /\ ~loop.returned => (teams = loop.before.teams /\ commit = loop.before.commit)
       /\ loop.returned
            => /\ Cardinality(Relocated) = 1
               /\ \A id \in Relocated :
                    /\ id \in Membership(loop.before.teams)[loop.targetTeamId]
                    /\ HasSubjectGroup(args.allStudents[id], loop.conflict.subject,
                                       loop.conflict.group)
                    /\ \E d \in 1..Len(teams) :
                         /\ d # loop.targetTeamId
                         /\ {t \in 1..Len(teams) : id \in Membership(teams)[t]} = {d}
                         /\ ~findGroupConflict(args.allStudents[id], loop.before.teams[d],
                                               loop.before.commit).found
               /\ \A id \in assigned \ Relocated : \A t \in 1..Len(teams) :
                    id \in Membership(teams)[t] <=> id \in Membership(loop.before.teams)[t]
               /\ \A t \in 1..Len(teams) :
                    Len(teams[t].students) = Cardinality(Membership(teams)[t])

\* tryResolveConflict has returned true where the occupant had two teams to
\* go to.
C28_Witness ==
  /\ pc = "resolved"
  /\ loop.returned
  /\ Len(teams) = RerunTeams
  /\ Relocated # {}


\* C29: conflict resolution in Phase 1 and Phase 2 relocates an occupant
\* only when the team can spare it: no step of the two phases takes a team
\* that holds at least the configured minimum of a selected subject to below
\* that minimum.
C29_ResolutionKeepsMinimums ==
  [][(pc = "phase1" \/ pc = "phase2")
       => \A t \in 1..Len(teams) : \A k \in 1..Len(Cfg.selectedSubjects) :
            (countStudentsWithSubject(teams[t], Cfg.selectedSubjects[k])
               >= MinOf(Cfg.selectedSubjects[k], Cfg.mins))
              => (countStudentsWithSubject(TeamById(teams', teams[t].id),
                                           Cfg.selectedSubjects[k])
                    >= MinOf(Cfg.selectedSubjects[k], Cfg.mins))]_vars


\* The team holds the student and, for every selected subject of the
\* student, the count without the student is at most the configured minimum
\* and the count with the student at most the upper limit.
PlacedWithinLimits(team, student) ==
  /\ IsMember(team, student.ID)
  /\ \A k \in 1..Len(Cfg.selectedSubjects) :
       HasSubject(student, Cfg.selectedSubjects[k])
         => /\ countStudentsWithSubject(team, Cfg.selectedSubjects[k]) - 1
                 <= MinOf(Cfg.selectedSubjects[k], Cfg.mins)
            /\ countStudentsWithSubject(team, Cfg.selectedSubjects[k])
                 <= UpperOf(Cfg.selectedSubjects[k], Cfg.mins)

\* For every subject of the student, the members of the team hold at most one
\* group after the placement if they held at most one before.
PlacedWithoutConflict(before, after, student) ==
  \A j \in 1..Len(student.Materias) :
    Cardinality(GroupsInUse(before.students, student.Materias[j].subject)) <= 1
      => Cardinality(GroupsInUse(after.students, student.Materias[j].subject)) <= 1

\* C30: Phase 2 places a student in a team only if that creates no group
\* conflict in the team and, for every selected criterion the student holds,
\* the team's count before the placement is at most the configured minimum;
\* so the placement raises no count above the upper limit, minimum + 1.
C30_Phase2WithinUpperLimit ==
  [][(/\ pc = "phase2"
      /\ loop.remainingStudents[loop.k].ID \notin assigned
      /\ loop.remainingStudents[loop.k].ID \in assigned')
       => \E t \in 1..Len(teams') :
            /\ PlacedWithinLimits(teams'[t], loop.remainingStudents[loop.k])
            /\ PlacedWithoutConflict(TeamById(teams, teams'[t].id), teams'[t],
                                     loop.remainingStudents[loop.k])]_vars


\* Phase 2 has placed a student in a team that holds, with that student, the
\* upper limit of a selected subject, and goes on to its next student.
C30_Witness ==
  /\ pc = "phase2"
  /\ \E j \in 1..(loop.k - 1) : \E t \in 1..Len(teams) :
       /\ loop.remainingStudents[j].ID \in assigned
       /\ PlacedWithinLimits(teams[t], loop.remainingStudents[j])
       /\ \E k \in 1..Len(Cfg.selectedSubjects) :
            /\ HasSubject(loop.remainingStudents[j], Cfg.selectedSubjects[k])
            /\ countStudentsWithSubject(teams[t], Cfg.selectedSubjects[k])
                 = UpperOf(Cfg.selectedSubjects[k], Cfg.mins)


====
